---- MODULE Spec2Model ----
(***************************************************************************)
(* A model of the Skillz tool execution runtime: the tool Registry         *)
(* (src/src/registry.rs), the meta-tool handlers that drive it             *)
(* (src/src/main.rs) and the per-tool Memory store (src/src/memory.rs).    *)
(*                                                                         *)
(* Conventions.                                                            *)
(*   Option<T>    : None is <<>>, Some(x) is <<x>>.                        *)
(*   PathBuf      : <<dir, file>>; the empty PathBuf::new() is <<>>.       *)
(*   a directory  : a function from the names of the files it holds to     *)
(*                  their contents.                                        *)
(*   a version    : the semver triple <<MAJOR, MINOR, PATCH>>.             *)
(* File-system calls are taken to succeed (no I/O faults), and the         *)
(* dependency environment of a tool (env/, deps_installed) is not part of  *)
(* the model.                                                              *)
(***************************************************************************)
EXTENDS Integers, Sequences, FiniteSets, TLC

VARIABLES
    tools,      \* ToolRegistry.tools: HashMap<String, ToolConfig>
    disk,       \* the tools directory: tool name -> its directory
    lastOp,     \* the last operation issued, its arguments and its outcome
    nOps,       \* number of registry operations issued so far
    mem,        \* the memories table: <<tool, key>> -> row
    now,        \* the clock behind datetime('now'), in seconds
    lastMem,    \* the last memory operation, its arguments and its result
    conc,       \* concurrent invocations on the Memory store and its RwLock
    script,     \* one script invocation: the executor's locals and the subprocess
    pipe,       \* one pipeline run: the locals of execute_pipeline
    eval,       \* one call of a function without state: its arguments and its result
    db,         \* the schema of the memory database and the store opened on it
    io,         \* the stdout and stderr pipes of one subprocess
    client,     \* one McpClient: its child process and its restart bookkeeping
    reqs,       \* registration requests in progress, each at a point of its handler
    storedAt    \* nOps when a registered tool last stored a memory entry

vars ==
    <<tools, disk, lastOp, nOps, mem, now, lastMem, conc, script, pipe, eval,
      db, io, client, reqs, storedAt>>
regVars == <<tools, disk, lastOp, nOps>>
memVars == <<mem, now, lastMem>>
hostVars == <<db, io, client, reqs, storedAt>>
runVars == <<script, pipe, eval, hostVars>>
extVars == <<conc, runVars>>

None == <<>>
Some(x) == <<x>>

-----------------------------------------------------------------------------
(* Bounds and input domains                                                *)

MaxOps == 3
MaxVerOps == 4

Names == {"a", "b"}
VerNames == {"a"}
\* a submission: the description of a manifest and the payload sent with it
Submissions == {[description |-> "d1", code |-> "P1"],
                [description |-> "d2", code |-> "P2"]}
Interpreters == {None, Some("python3")}
SourceCode == "fn main() {}"
V100 == <<1, 0, 0>>
V101 == <<1, 0, 1>>
BuiltInTools ==
    {"build_tool", "register_script", "create_skill", "import_tool", "call_tool",
     "list_tools", "complete", "execute_code", "install_deps", "delete_tool",
     "test_validate", "pipeline", "memory"}
StepTools == Names \cup {"memory", "ghost"}

-----------------------------------------------------------------------------
(* Manifests and tool records                                              *)

ToolManifestNew(name, description, tool_type) ==
    [name           |-> name,
     version        |-> V100,
     description    |-> description,
     tool_type      |-> tool_type,
     entry_file     |-> None,
     interpreter    |-> None,
     pipeline_steps |-> <<>>]

NewPipeline(name, description, steps) ==
    [ToolManifestNew(name, description, "pipeline") EXCEPT !.pipeline_steps = steps]

ManifestFile(manifest) == [kind |-> "manifest", manifest |-> manifest]
BytesFile(bytes) == [kind |-> "bytes", bytes |-> bytes]

WriteFile(files, fname, content) == (fname :> content) @@ files

Join(dir, file) == <<dir, file>>
EmptyPath == <<>>

\* the extension register_script_tool generates for an interpreter
RegisterExt(interpreter) ==
    IF interpreter \in {Some("python3"), Some("python")} THEN "py"
    ELSE IF interpreter \in {Some("node"), Some("nodejs")} THEN "js"
    ELSE IF interpreter = Some("ruby") THEN "rb"
    ELSE IF interpreter \in {Some("bash"), Some("sh")} THEN "sh"
    ELSE IF interpreter = Some("perl") THEN "pl"
    ELSE IF interpreter = Some("php") THEN "php"
    ELSE "script"

\* the extension load_tool_from_dir infers for an interpreter
LoadExt(interpreter) ==
    IF interpreter \in {Some("python3"), Some("python")} THEN "py"
    ELSE IF interpreter \in {Some("node"), Some("nodejs")} THEN "js"
    ELSE IF interpreter = Some("ruby") THEN "rb"
    ELSE IF interpreter \in {Some("bash"), Some("sh")} THEN "sh"
    ELSE IF interpreter = Some("perl") THEN "pl"
    ELSE IF interpreter = Some("php") THEN "php"
    ELSE "script"

ToolConfig(manifest, tool_dir, wasm_path, script_path) ==
    [manifest    |-> manifest,
     tool_dir    |-> tool_dir,
     wasm_path   |-> wasm_path,
     script_path |-> script_path]

\* fs::create_dir_all(tool_dir): an existing directory is kept as it is
CreateDirAll(d, name) ==
    IF name \in DOMAIN d THEN d[name] ELSE [files |-> <<>>, versions |-> <<>>]

Remove(f, x) == [y \in DOMAIN f \ {x} |-> f[y]]

-----------------------------------------------------------------------------
(* Registry operations.  Each register_* yields the record it returns and  *)
(* the files of the tool directory after its writes.                       *)

RegisterWasmFiles(files, manifest, wasm_bytes, source_code) ==
    LET f1 == WriteFile(files, "manifest.json", ManifestFile(manifest))
        f2 == WriteFile(f1, manifest.name \o ".wasm", BytesFile(wasm_bytes))
    IN  IF source_code # "" THEN WriteFile(f2, "src.rs", BytesFile(source_code)) ELSE f2

RegisterWasmConfigOtherFile(manifest) ==
    ToolConfig(manifest, manifest.name, Join(manifest.name, "tool.wasm"), EmptyPath)

RegisterWasmConfig(manifest) ==
    ToolConfig(manifest, manifest.name,
               Join(manifest.name, manifest.name \o ".wasm"), EmptyPath)

ScriptFilename(manifest) ==
    IF manifest.entry_file # None THEN manifest.entry_file[1]
    ELSE manifest.name \o "." \o RegisterExt(manifest.interpreter)

\* the manifest register_script_tool stores: entry_file filled in when not set
ScriptManifest(manifest) ==
    IF manifest.entry_file = None
    THEN [manifest EXCEPT !.entry_file = Some(ScriptFilename(manifest))]
    ELSE manifest

RegisterScriptFiles(files, manifest, code) ==
    LET f1 == WriteFile(files, "manifest.json", ManifestFile(ScriptManifest(manifest)))
    IN  WriteFile(f1, ScriptFilename(manifest), BytesFile(code))

RegisterScriptConfigStale(manifest) ==
    ToolConfig(manifest, manifest.name, EmptyPath,
               Join(manifest.name, ScriptFilename(manifest)))

RegisterScriptConfig(manifest) ==
    ToolConfig(ScriptManifest(manifest), manifest.name, EmptyPath,
               Join(manifest.name, ScriptFilename(manifest)))

RegisterPipelineFiles(files, manifest) ==
    WriteFile(files, "manifest.json", ManifestFile(manifest))

RegisterPipelineConfig(manifest) ==
    ToolConfig(manifest, manifest.name, EmptyPath, EmptyPath)

\* register_wasm_tool(manifest, wasm_bytes, source_code)
RegisterWasmTool(manifest, wasm_bytes, source_code) ==
    LET dir == CreateDirAll(disk, manifest.name) IN
    /\ disk' = (manifest.name :>
                  [dir EXCEPT !.files =
                      RegisterWasmFiles(dir.files, manifest, wasm_bytes, source_code)])
               @@ disk
    /\ tools' = (manifest.name :> RegisterWasmConfig(manifest)) @@ tools

\* register_tool(manifest, code): dispatch on manifest.tool_type
RegisterTool(manifest, code) ==
    LET dir == CreateDirAll(disk, manifest.name) IN
    CASE manifest.tool_type = "wasm" -> RegisterWasmTool(manifest, code, "")
      [] manifest.tool_type = "script" ->
            /\ disk' = (manifest.name :>
                          [dir EXCEPT !.files =
                              RegisterScriptFiles(dir.files, manifest, code)])
                       @@ disk
            /\ tools' = (manifest.name :> RegisterScriptConfig(manifest)) @@ tools
      [] manifest.tool_type = "pipeline" ->
            /\ disk' = (manifest.name :>
                          [dir EXCEPT !.files = RegisterPipelineFiles(dir.files, manifest)])
                       @@ disk
            /\ tools' = (manifest.name :> RegisterPipelineConfig(manifest)) @@ tools

GetTool(name) == IF name \in DOMAIN tools THEN Some(tools[name]) ELSE None

LoadToolFromDirIgnoreEntry(tool_dir, files) ==
    IF "manifest.json" \notin DOMAIN files \/ files["manifest.json"].kind # "manifest"
    THEN None
    ELSE LET manifest == files["manifest.json"].manifest
             tool_name == manifest.name
         IN  CASE manifest.tool_type = "wasm" ->
                    Some(ToolConfig(manifest, tool_dir,
                                    Join(tool_dir, tool_name \o ".wasm"), EmptyPath))
               [] manifest.tool_type = "script" ->
                    Some(ToolConfig(manifest, tool_dir, EmptyPath,
                           Join(tool_dir,
                                tool_name \o "." \o LoadExt(manifest.interpreter))))
               [] manifest.tool_type = "pipeline" ->
                    Some(ToolConfig(manifest, tool_dir, EmptyPath, EmptyPath))

\* load_tool_from_dir(tool_dir): Ok(config) as Some(config), Err as None
LoadToolFromDir(tool_dir, files) ==
    IF "manifest.json" \notin DOMAIN files \/ files["manifest.json"].kind # "manifest"
    THEN None
    ELSE LET manifest == files["manifest.json"].manifest
             tool_name == manifest.name
         IN  CASE manifest.tool_type = "wasm" ->
                    Some(ToolConfig(manifest, tool_dir,
                                    Join(tool_dir, tool_name \o ".wasm"), EmptyPath))
               [] manifest.tool_type = "script" ->
                    Some(ToolConfig(manifest, tool_dir, EmptyPath,
                           IF manifest.entry_file # None
                           THEN Join(tool_dir, manifest.entry_file[1])
                           ELSE Join(tool_dir,
                                     tool_name \o "." \o LoadExt(manifest.interpreter))))
               [] manifest.tool_type = "pipeline" ->
                    Some(ToolConfig(manifest, tool_dir, EmptyPath, EmptyPath))

\* the bytes of the file at a path, None when the path is empty or no file is there
ReadPath(d, path) ==
    IF path = EmptyPath THEN None
    ELSE IF path[1] \notin DOMAIN d THEN None
    ELSE IF path[2] \notin DOMAIN d[path[1]].files THEN None
    ELSE Some(d[path[1]].files[path[2]])

\* the payload path of a record: wasm_path or script_path by tool type
PayloadPath(config) ==
    CASE config.manifest.tool_type = "wasm" -> config.wasm_path
      [] config.manifest.tool_type = "script" -> config.script_path
      [] OTHER -> EmptyPath

-----------------------------------------------------------------------------
(* Initial state: an empty tools directory and an empty memory database    *)

NoOp == [op |-> "none", name |-> "", ok |-> FALSE, overwrite |-> FALSE,
         existed |-> FALSE, manifest |-> None, code |-> None, version |-> None]

Op(op, name, ok, overwrite, existed, manifest, code, version) ==
    [op |-> op, name |-> name, ok |-> ok, overwrite |-> overwrite,
     existed |-> existed, manifest |-> manifest, code |-> code, version |-> version]

NoMemOp == [op |-> "none", tool |-> "", key |-> "", value |-> None, ttl |-> None,
            rows |-> 0, replaced |-> ""]

\* no script invocation yet: call_script_tool has not been entered
ScriptInit ==
    [phase        |-> "idle",
     args         |-> None,
     stdin        |-> <<>>,
     stdin_open   |-> FALSE,
     emitted      |-> <<>>,
     read         |-> 0,
     blocked      |-> FALSE,
     exited       |-> None,
     expired      |-> FALSE,
     logs         |-> <<>>,
     progress     |-> <<>>,
     final_result |-> None,
     final_error  |-> None,
     outcome      |-> None]

\* the invocations that use the Memory store concurrently
Invocations == {"i1", "i2"}

\* no invocation has issued a call, the RwLock around the connection is free
ConcInit ==
    [pc      |-> [p \in Invocations |-> "idle"],
     call    |-> [p \in Invocations |-> NoMemOp],
     writers |-> {},
     readers |-> {},
     written |-> <<>>,
     own     |-> [p \in Invocations |-> <<>>],
     issued  |-> 0]

\* execute_pipeline before a call: no steps, and the locals as they are
\* declared at the top of the function
PipeInit ==
    [phase            |-> "idle",
     steps            |-> <<>>,
     i                |-> 0,
     step_results     |-> <<>>,
     prev_output      |-> None,
     results          |-> <<>>,
     pipeline_success |-> TRUE,
     invoked          |-> <<>>,
     header           |-> None]

\* a database file that does not exist yet and no store opened on it
DbInit ==
    [open       |-> FALSE,   \* a Memory was returned by Memory::new and is in use
     migrations |-> {},      \* the versions in the table _migrations
     memories   |-> FALSE,   \* the table memories exists
     expires_at |-> FALSE,   \* the table memories has the column expires_at
     applied    |-> <<>>,    \* the migrations that ran to their end, in order
     failed     |-> FALSE,   \* the last Memory::new returned Err
     opens      |-> 0,       \* the calls of Memory::new so far
     found      |-> 0]       \* the rows the last Memory::new found in memories

\* no subprocess yet
IoInit ==
    [exec        |-> "idle",  \* where call_script_tool is
     pending     |-> "none",  \* the write(2) the subprocess is in
     out_written |-> 0,       \* lines the subprocess wrote to stdout
     err_written |-> 0,       \* blocks the subprocess wrote to stderr
     out_buf     |-> 0,       \* lines in the stdout pipe, not read yet
     err_buf     |-> 0,       \* blocks in the stderr pipe, not read yet
     stdout_open |-> FALSE,   \* the subprocess holds the write end of stdout
     exited      |-> FALSE,
     stderr_read |-> 0]       \* blocks read_to_string returned

\* McpClient::new: no child, and the clock of Instant::now() at 0
ClientInit ==
    [child         |-> FALSE,  \* state.child is a running process
     restart_count |-> 0,
     last_restart  |-> None,
     clock         |-> 0,      \* seconds
     connects      |-> <<>>,   \* the times at which connect() started a child
     refused       |-> FALSE,  \* the last connect() returned "Max restarts exceeded"
     attempts      |-> 0]      \* the calls of connect() so far

Requests == {"r1", "r2"}

\* no registration request has been received
ReqsInit ==
    [r \in Requests |->
        [pc       |-> "idle",   \* the point of the handler the request is at
         kind     |-> "",       \* "register_script" or "build_tool"
         manifest |-> None,     \* the manifest the handler builds
         code     |-> "",       \* the payload: script code or compiled bytes
         ok       |-> FALSE]]   \* the handler reported success

Init ==
    /\ tools = <<>>
    /\ disk = <<>>
    /\ lastOp = NoOp
    /\ nOps = 0
    /\ mem = <<>>
    /\ now = 0
    /\ lastMem = NoMemOp
    /\ conc = ConcInit
    /\ script = ScriptInit
    /\ pipe = PipeInit
    /\ eval = [fn |-> "none"]
    /\ db = DbInit
    /\ io = IoInit
    /\ client = ClientInit
    /\ reqs = ReqsInit
    /\ storedAt = 0

-----------------------------------------------------------------------------
(* Meta-tool handlers (AppState)                                           *)

\* "Check if tool exists": the guard of register_script and build_tool
AlreadyExistsNoCheck(name, overwrite) == FALSE

AlreadyExists(name, overwrite) == GetTool(name) # None /\ ~overwrite

\* register_script(name, description, interpreter, code, overwrite)
RegisterScript(name, sub, interpreter, overwrite) ==
    LET manifest == [ToolManifestNew(name, sub.description, "script")
                        EXCEPT !.interpreter = interpreter]
    IN
    /\ nOps' = nOps + 1
    /\ IF AlreadyExists(name, overwrite)
       THEN /\ UNCHANGED <<tools, disk>>
            /\ lastOp' = Op("register_script", name, FALSE, overwrite, TRUE,
                            Some(manifest), Some(sub.code), None)
       ELSE /\ RegisterTool(manifest, sub.code)
            /\ lastOp' = Op("register_script", name, TRUE, overwrite,
                            GetTool(name) # None, Some(manifest), Some(sub.code), None)
    /\ UNCHANGED <<memVars, extVars>>

\* build_tool(name, code, description, overwrite); compiled is the outcome of
\* Builder::compile_tool_with_deps: Some(wasm bytes) or None on a compilation error
BuildTool(name, sub, compiled, overwrite) ==
    LET manifest == ToolManifestNew(name, sub.description, "wasm") IN
    /\ nOps' = nOps + 1
    /\ IF AlreadyExists(name, overwrite)
       THEN /\ UNCHANGED <<tools, disk>>
            /\ lastOp' = Op("build_tool", name, FALSE, overwrite, TRUE,
                            Some(manifest), compiled, None)
       ELSE IF compiled = None
       THEN /\ UNCHANGED <<tools, disk>>
            /\ lastOp' = Op("build_tool", name, FALSE, overwrite,
                            GetTool(name) # None, None, None, None)
       ELSE /\ RegisterWasmTool(manifest, compiled[1], SourceCode)
            /\ lastOp' = Op("build_tool", name, TRUE, overwrite,
                            GetTool(name) # None, Some(manifest), compiled, None)
    /\ UNCHANGED <<memVars, extVars>>

\* a variant of the validation of the steps that accepts every tool name
UnknownToolNever(tool) == FALSE

\* "Validate steps reference existing tools": the test made on each step
UnknownTool(tool) == GetTool(tool) = None /\ tool \notin BuiltInTools

\* pipeline(action: "create", name, steps)
PipelineCreate(name, description, steps) ==
    LET manifest == NewPipeline(name, description, steps) IN
    /\ nOps' = nOps + 1
    /\ IF GetTool(name) # None
       THEN /\ UNCHANGED <<tools, disk>>
            /\ lastOp' = Op("pipeline_create", name, FALSE, FALSE, TRUE,
                            Some(manifest), None, None)
       ELSE IF \E i \in 1..Len(steps) : UnknownTool(steps[i].tool)
       THEN /\ UNCHANGED <<tools, disk>>
            /\ lastOp' = Op("pipeline_create", name, FALSE, FALSE, FALSE,
                            Some(manifest), None, None)
       ELSE /\ RegisterTool(manifest, "")
            /\ lastOp' = Op("pipeline_create", name, TRUE, FALSE, FALSE,
                            Some(manifest), Some(""), None)
    /\ UNCHANGED <<memVars, extVars>>

\* ToolRegistry::register_tool called on the registry itself (as the tests do)
RegistryRegisterTool(manifest, code) ==
    /\ nOps' = nOps + 1
    /\ RegisterTool(manifest, code)
    /\ lastOp' = Op("register_tool", manifest.name, TRUE, TRUE,
                    GetTool(manifest.name) # None, Some(manifest), Some(code), None)
    /\ UNCHANGED <<memVars, extVars>>

DeleteToolKeepDir(name) ==
    /\ nOps' = nOps + 1
    /\ IF name \in DOMAIN tools
       THEN /\ tools' = Remove(tools, name)
            /\ disk' = disk
            /\ lastOp' = Op("delete_tool", name, TRUE, FALSE, TRUE, None, None, None)
       ELSE /\ UNCHANGED <<tools, disk>>
            /\ lastOp' = Op("delete_tool", name, FALSE, FALSE, FALSE, None, None, None)
    /\ UNCHANGED <<memVars, extVars>>

\* a variant of delete_tool that also drops the rows the Memory Store keeps
\* under the name
DeleteToolForgetting(name) ==
    /\ nOps' = nOps + 1
    /\ IF name \in DOMAIN tools
       THEN /\ tools' = Remove(tools, name)
            /\ disk' = IF name \in DOMAIN disk THEN Remove(disk, name) ELSE disk
            /\ lastOp' = Op("delete_tool", name, TRUE, FALSE, TRUE, None, None, None)
       ELSE /\ UNCHANGED <<tools, disk>>
            /\ lastOp' = Op("delete_tool", name, FALSE, FALSE, FALSE, None, None, None)
    /\ mem' = [c \in {c \in DOMAIN mem : c[1] # name} |-> mem[c]]
    /\ UNCHANGED <<now, lastMem, extVars>>

\* delete_tool(name): the record is removed, then the directory if it exists;
\* ok is the boolean it returns
DeleteTool(name) ==
    /\ nOps' = nOps + 1
    /\ IF name \in DOMAIN tools
       THEN /\ tools' = Remove(tools, name)
            /\ disk' = IF name \in DOMAIN disk THEN Remove(disk, name) ELSE disk
            /\ lastOp' = Op("delete_tool", name, TRUE, FALSE, TRUE, None, None, None)
       ELSE /\ UNCHANGED <<tools, disk>>
            /\ lastOp' = Op("delete_tool", name, FALSE, FALSE, FALSE, None, None, None)
    /\ UNCHANGED <<memVars, extVars>>

-----------------------------------------------------------------------------
(* Versioning.  increment_version, list_versions and rollback are called   *)
(* by src/tests/registry_test.rs and by AppState::version, and their       *)
(* bodies are not part of src/src/registry.rs; they follow the             *)
(* specification: sections 3 (Lifecycle) and 4.1.                          *)

\* increment_version: PATCH + 1, MAJOR and MINOR kept
IncrementVersion(version) == <<version[1], version[2], version[3] + 1>>

\* version backup: the live files copied into versions/<version>/
BackupVersion(dir, version) ==
    [dir EXCEPT !.versions = (version :> dir.files) @@ dir.versions]

\* list_versions(name): the snapshots under versions/ plus the current version, marked
ListVersionsIn(t, d, name) ==
    IF name \notin DOMAIN t \/ name \notin DOMAIN d THEN {}
    ELSE LET current == t[name].manifest.version IN
         {[version |-> v, current |-> (v = current)] :
              v \in DOMAIN d[name].versions \cup {current}}

ListVersions(name) == ListVersionsIn(tools, disk, name)

HasVersion(name, version) == \E e \in ListVersions(name) : e.version = version

\* the directory after rollback: back up current, then copy versions/<version>/*
\* over the live files
RollbackDir(dir, current, version) ==
    LET backed == BackupVersion(dir, current)
    IN  [backed EXCEPT !.files = backed.versions[version] @@ backed.files]

\* version(action: "rollback", tool_name, version)
Rollback(name, version) ==
    /\ nOps' = nOps + 1
    /\ IF ~HasVersion(name, version)
       THEN /\ UNCHANGED <<tools, disk>>
            /\ lastOp' = Op("rollback", name, FALSE, FALSE, GetTool(name) # None,
                            None, None, Some(version))
       ELSE LET dir == RollbackDir(disk[name], tools[name].manifest.version, version)
                loaded == LoadToolFromDir(name, dir.files)
            IN  /\ disk' = [disk EXCEPT ![name] = dir]
                /\ tools' = IF loaded # None
                            THEN [tools EXCEPT ![name] = loaded[1]]
                            ELSE tools
                /\ lastOp' = Op("rollback", name, TRUE, FALSE, TRUE,
                                None, None, Some(version))
    /\ UNCHANGED <<memVars, extVars>>

-----------------------------------------------------------------------------
(* Specification of registration and deletion                              *)

StepSeqs ==
    {<<[tool |-> t]>> : t \in StepTools}
    \cup {<<[tool |-> "memory"], [tool |-> t]>> : t \in StepTools}

EntryManifests ==
    {[ToolManifestNew(n, s.description, "script")
         EXCEPT !.entry_file = Some("main.py"), !.interpreter = Some("python3")] :
        n \in Names, s \in Submissions}

RegisterScriptStep ==
    \E name \in Names, sub \in Submissions, i \in Interpreters, ow \in BOOLEAN :
        nOps < MaxOps /\ RegisterScript(name, sub, i, ow)

BuildToolStep ==
    \E name \in Names, sub \in Submissions, ow \in BOOLEAN :
        \E compiled \in {None, Some(sub.code)} :
            nOps < MaxOps /\ BuildTool(name, sub, compiled, ow)

PipelineCreateStep ==
    \E name \in Names, steps \in StepSeqs :
        nOps < MaxOps /\ PipelineCreate(name, "d1", steps)

RegisterToolStep ==
    \E m \in EntryManifests, sub \in Submissions :
        nOps < MaxOps /\ m.description = sub.description
                      /\ RegistryRegisterTool(m, sub.code)

DeleteToolStep ==
    \E name \in Names : nOps < MaxOps /\ DeleteTool(name)

Next ==
    \/ RegisterScriptStep
    \/ BuildToolStep
    \/ PipelineCreateStep
    \/ RegisterToolStep
    \/ DeleteToolStep

Spec == Init /\ [][Next]_vars

-----------------------------------------------------------------------------
(* Specification of versioning: registrations of one tool under changing   *)
(* versions, types and entry files, and rollbacks                          *)

V200 == <<2, 0, 0>>

VerManifests ==
    UNION {
      { [ToolManifestNew(n, s.description, "script")
            EXCEPT !.version = v, !.interpreter = Some("python3")],
        [ToolManifestNew(n, s.description, "script")
            EXCEPT !.version = v, !.entry_file = Some("main.py"),
                   !.interpreter = Some("python3")],
        [ToolManifestNew(n, s.description, "wasm") EXCEPT !.version = v] } :
      n \in VerNames, s \in Submissions, v \in {V100, V101} }

VerRegisterStep ==
    \E m \in VerManifests, sub \in Submissions :
        nOps < MaxVerOps /\ m.description = sub.description
                         /\ RegistryRegisterTool(m, sub.code)

VerRollbackStep ==
    \E name \in VerNames, v \in {V100, V101, V200} :
        nOps < MaxVerOps /\ Rollback(name, v)

VerDeleteStep ==
    \E name \in VerNames : nOps < MaxVerOps /\ DeleteTool(name)

NextVer ==
    \/ VerRegisterStep
    \/ VerRollbackStep
    \/ VerDeleteStep

SpecVer == Init /\ [][NextVer]_vars

-----------------------------------------------------------------------------
(* Memory store.  The memories table, UNIQUE(tool, key), is a function     *)
(* from the <<tool, key>> pairs that have a row to [value, expires_at],    *)
(* expires_at an Option (NULL is None).  datetime('now') is the clock now, *)
(* in whole seconds; created_at and updated_at are returned by no          *)
(* operation and are left out.                                             *)

MaxTime == 2
MaxTtl == 2

MemTools == {"tool_a", "tool_b"}
\* the keys used, in ascending order of their bytes (the order of ORDER BY key)
KeysSorted == <<"alpha", "beta">>
MemKeys == {KeysSorted[i] : i \in DOMAIN KeysSorted}
\* the <<tool, key>> pairs written to; tool_b never writes "beta"
MemCells == {<<"tool_a", "alpha">>, <<"tool_a", "beta">>, <<"tool_b", "alpha">>}
MemValues == {"X", "Y"}
Ttls == {None} \cup {Some(t) : t \in 0..MaxTtl}

Row(value, expires_at) == [value |-> value, expires_at |-> expires_at]

\* WHERE clause of get: expires_at IS NULL OR expires_at > datetime('now')
GetFilterInclusive(row, t) == row.expires_at = None \/ row.expires_at[1] >= t

GetFilter(row, t) == row.expires_at = None \/ row.expires_at[1] > t

\* WHERE clause of list_keys
ListFilter(row, t) == row.expires_at = None \/ row.expires_at[1] > t

\* get(tool, key) evaluated on table m at time t
Get(m, t, tool, key) ==
    IF <<tool, key>> \in DOMAIN m /\ GetFilter(m[<<tool, key>>], t)
    THEN Some(m[<<tool, key>>].value)
    ELSE None

\* ORDER BY key: the selected keys as an ascending sequence
OrderByKey(keys) == SelectSeq(KeysSorted, LAMBDA k : k \in keys)

\* list_keys(tool) evaluated on table m at time t
ListKeys(m, t, tool) ==
    OrderByKey({c[2] : c \in {c \in DOMAIN m : c[1] = tool /\ ListFilter(m[c], t)}})

\* INSERT ... ON CONFLICT(tool, key) DO UPDATE SET value, expires_at
Upsert(m, tool, key, value, expires_at) ==
    (<<tool, key>> :> Row(value, expires_at)) @@ m

\* the expiration set_with_ttl computes: ttl_secs.filter(t > 0), then now + t
ExpiresAt(t, ttl_secs) ==
    IF ttl_secs # None /\ ttl_secs[1] > 0 THEN Some(t + ttl_secs[1]) ELSE None

UpsertNoTtlKeepExpiry(m, tool, key, value) ==
    IF <<tool, key>> \in DOMAIN m
    THEN [m EXCEPT ![<<tool, key>>].value = value]
    ELSE Upsert(m, tool, key, value, None)

\* the None branch of set_with_ttl: expires_at = NULL on insert and on conflict
UpsertNoTtl(m, tool, key, value) == Upsert(m, tool, key, value, None)

MemOp(op, tool, key, value, ttl, rows, replaced) ==
    [op |-> op, tool |-> tool, key |-> key, value |-> value, ttl |-> ttl,
     rows |-> rows, replaced |-> replaced]

\* what a set found under (tool, key): no row, a row without or with an expiry
Replaced(m, tool, key) ==
    IF <<tool, key>> \notin DOMAIN m THEN "absent"
    ELSE IF m[<<tool, key>>].expires_at = None THEN "permanent"
    ELSE "expiring"

Restrict(m, cells) == [c \in cells |-> m[c]]

\* set_with_ttl(tool, key, value, ttl_secs)
SetWithTtl(tool, key, value, ttl_secs) ==
    /\ mem' = IF ExpiresAt(now, ttl_secs) = None
              THEN UpsertNoTtl(mem, tool, key, value)
              ELSE Upsert(mem, tool, key, value, ExpiresAt(now, ttl_secs))
    /\ lastMem' = MemOp("set", tool, key, Some(value), ttl_secs, 1,
                        Replaced(mem, tool, key))
    /\ UNCHANGED <<now, regVars, extVars>>

\* delete(tool, key): rows is the number of rows deleted, the result is rows > 0
MemDelete(tool, key) ==
    /\ mem' = Restrict(mem, DOMAIN mem \ {<<tool, key>>})
    /\ lastMem' = MemOp("delete", tool, key, None, None,
                        IF <<tool, key>> \in DOMAIN mem THEN 1 ELSE 0, "")
    /\ UNCHANGED <<now, regVars, extVars>>

ClearRowsNoWhere(m, tool) == <<>>

\* DELETE FROM memories WHERE tool = ?
ClearRows(m, tool) == Restrict(m, {c \in DOMAIN m : c[1] # tool})

\* clear(tool): returns the number of rows deleted
MemClear(tool) ==
    /\ mem' = ClearRows(mem, tool)
    /\ lastMem' = MemOp("clear", tool, "", None, None,
                        Cardinality(DOMAIN mem) - Cardinality(DOMAIN ClearRows(mem, tool)),
                        "")
    /\ UNCHANGED <<now, regVars, extVars>>

\* clear_all()
MemClearAll ==
    /\ mem' = <<>>
    /\ lastMem' = MemOp("clear_all", "", "", None, None, Cardinality(DOMAIN mem), "")
    /\ UNCHANGED <<now, regVars, extVars>>

CleanupFilterStrict(row, t) == row.expires_at # None /\ row.expires_at[1] < t

\* WHERE clause of cleanup_expired: expires_at IS NOT NULL AND expires_at <= now
CleanupFilter(row, t) == row.expires_at # None /\ row.expires_at[1] <= t

\* cleanup_expired(): returns the number of rows deleted
CleanupExpired ==
    LET kept == Restrict(mem, {c \in DOMAIN mem : ~CleanupFilter(mem[c], now)}) IN
    /\ mem' = kept
    /\ lastMem' = MemOp("cleanup_expired", "", "", None, None,
                        Cardinality(DOMAIN mem) - Cardinality(DOMAIN kept), "")
    /\ UNCHANGED <<now, regVars, extVars>>

\* one second passes
Tick ==
    /\ now < MaxTime
    /\ now' = now + 1
    /\ lastMem' = MemOp("tick", "", "", None, None, 0, "")
    /\ UNCHANGED <<mem, regVars, extVars>>

SetStep ==
    \E c \in MemCells, value \in MemValues, ttl \in Ttls :
        SetWithTtl(c[1], c[2], value, ttl)

DeleteStep == \E c \in MemCells : MemDelete(c[1], c[2])

ClearStep == \E tool \in MemTools : MemClear(tool)

NextMem ==
    \/ SetStep
    \/ DeleteStep
    \/ ClearStep
    \/ MemClearAll
    \/ CleanupExpired
    \/ Tick

SpecMem == Init /\ [][NextMem]_vars

-----------------------------------------------------------------------------
(* Properties of the Registry                                              *)

RegisterOps == {"register_script", "build_tool", "pipeline_create", "register_tool"}

Registered(op) == op.op \in RegisterOps /\ op.ok

\* the file a manifest names as its payload, read from a set of files
ManifestPayload(files) ==
    LET m == files["manifest.json"].manifest
        f == CASE m.tool_type = "wasm" -> Some(m.name \o ".wasm")
               [] m.tool_type = "script" -> m.entry_file
               [] OTHER -> None
    IN  IF f = None THEN None
        ELSE IF f[1] \in DOMAIN files THEN Some(files[f[1]]) ELSE None

\* C1 (as stated): after register(T, P) succeeds, for every tool type, get(T.name)
\* returns a record whose manifest equals T and the file at the record's payload
\* path exists and holds exactly the bytes P.
C1_RegisterStoresManifestAndPayload ==
    Registered(lastOp) =>
        LET T == lastOp.manifest[1]
            rec == GetTool(T.name)
        IN  /\ rec # None
            /\ rec[1].manifest = T
            /\ ReadPath(disk, PayloadPath(rec[1])) = Some(BytesFile(lastOp.code[1]))

\* C1 (amended): after register(T, P) succeeds, get(T.name) returns a record whose
\* manifest equals T, except that a script manifest submitted without entry_file
\* carries the generated file name <name>.<ext>; for a wasm or script tool the file
\* at the record's payload path holds exactly P; a pipeline has no payload file.
C1_RegisterStoresManifestUpToEntryFile ==
    Registered(lastOp) =>
        LET T == lastOp.manifest[1]
            rec == GetTool(T.name)
        IN  /\ rec # None
            /\ IF T.tool_type = "script" /\ T.entry_file = None
               THEN rec[1].manifest =
                      [T EXCEPT !.entry_file =
                          Some(T.name \o "." \o RegisterExt(T.interpreter))]
               ELSE rec[1].manifest = T
            /\ disk[T.name].files["manifest.json"] = ManifestFile(rec[1].manifest)
            /\ IF T.tool_type = "pipeline"
               THEN PayloadPath(rec[1]) = EmptyPath
               ELSE ReadPath(disk, PayloadPath(rec[1])) = Some(BytesFile(lastOp.code[1]))

C1_Witness ==
    /\ lastOp.op = "register_script" /\ lastOp.ok
    /\ lastOp.manifest[1].entry_file = None
    /\ lastOp.manifest[1].interpreter = Some("python3")
    /\ tools[lastOp.name].script_path = Join(lastOp.name, lastOp.name \o ".py")

\* C2: a registration (register_script, build_tool, pipeline create) under a name
\* that is already registered, issued without overwrite, fails and leaves the
\* records and the tools directory unchanged.
C2_NoOverwriteWithoutRequest ==
    [][(/\ nOps' = nOps + 1
        /\ lastOp'.op \in {"register_script", "build_tool", "pipeline_create"}
        /\ lastOp'.name \in DOMAIN tools
        /\ ~lastOp'.overwrite)
       => (~lastOp'.ok /\ tools' = tools /\ disk' = disk)]_vars

C2_Witness ==
    /\ lastOp.op \in {"register_script", "build_tool"}
    /\ lastOp.existed /\ ~lastOp.overwrite /\ ~lastOp.ok
    /\ lastOp.name \in DOMAIN tools
    /\ tools[lastOp.name].manifest.description # lastOp.manifest[1].description

\* C3 (as stated): registering a tool whose name already exists copies the live
\* files into versions/<current_version>/, stores the new manifest with PATCH of
\* the current version incremented by one whatever version is submitted, and
\* list_versions then holds the old version and the new one marked current.
C3_UpdateBacksUpAndIncrements ==
    [][(/\ nOps' = nOps + 1
        /\ Registered(lastOp')
        /\ lastOp'.name \in DOMAIN tools)
       => LET n == lastOp'.name
              old == tools[n].manifest.version
              new == IncrementVersion(old)
              listed == ListVersionsIn(tools', disk', n)
          IN  /\ old \in DOMAIN disk'[n].versions
              /\ disk'[n].versions[old] = disk[n].files
              /\ tools'[n].manifest.version = new
              /\ [version |-> old, current |-> FALSE] \in listed
              /\ [version |-> new, current |-> TRUE] \in listed]_vars

\* C4: for every version v that list_versions(name) contains, after
\* rollback(name, v) get(name).manifest.version is v, the manifest is the one
\* stored at v and the live payload is the payload stored at v (for the current
\* version, what is stored at v is the live state that rollback backs up first).
C4_RollbackRestoresVersion ==
    [][(/\ nOps' = nOps + 1
        /\ lastOp'.op = "rollback"
        /\ HasVersion(lastOp'.name, lastOp'.version[1]))
       => LET n == lastOp'.name
              v == lastOp'.version[1]
              stored == IF v = tools[n].manifest.version
                        THEN disk[n].files
                        ELSE disk[n].versions[v]
          IN  /\ lastOp'.ok
              /\ tools'[n].manifest.version = v
              /\ tools'[n].manifest = stored["manifest.json"].manifest
              /\ disk'[n].files["manifest.json"] = stored["manifest.json"]
              /\ ReadPath(disk', PayloadPath(tools'[n])) = ManifestPayload(stored)
              /\ tools'[n].manifest.tool_type # "pipeline"
                    => ManifestPayload(stored) # None]_vars

C4_Witness ==
    /\ lastOp.op = "rollback" /\ lastOp.ok
    /\ lastOp.version = Some(V100)
    /\ V101 \in DOMAIN disk[lastOp.name].versions
    /\ disk[lastOp.name].versions[V101]["manifest.json"].manifest.description
          # tools[lastOp.name].manifest.description
    /\ ManifestPayload(disk[lastOp.name].versions[V101])
          # ReadPath(disk, PayloadPath(tools[lastOp.name]))

C6_DeleteRemovesOrReturnsFalse ==
    [][(nOps' = nOps + 1 /\ lastOp'.op = "delete_tool")
       => LET n == lastOp'.name IN
          IF n \in DOMAIN tools
          THEN /\ lastOp'.ok
               /\ n \notin DOMAIN tools'
               /\ n \notin DOMAIN disk'
               /\ \A o \in DOMAIN tools \ {n} : tools'[o] = tools[o]
               /\ \A o \in DOMAIN disk \ {n} : disk'[o] = disk[o]
          ELSE ~lastOp'.ok /\ tools' = tools /\ disk' = disk]_vars

C6_Witness ==
    /\ lastOp.op = "delete_tool" /\ lastOp.ok
    /\ GetTool(lastOp.name) = None
    /\ lastOp.name \notin DOMAIN disk
    /\ DOMAIN tools # {}

-----------------------------------------------------------------------------
(* Properties of the Memory store                                          *)

\* the latest time at which any row written within MaxTime can expire
Horizon == MaxTime + MaxTtl

\* the operation writes the row of (tool, key): a set or delete of it, or a clear
Writes(op, tool, key) ==
    \/ op.op \in {"set", "delete"} /\ op.tool = tool /\ op.key = key
    \/ op.op = "clear" /\ op.tool = tool
    \/ op.op = "clear_all"

\* get(tool, key) returns v now and at every later time, if nothing is written
ReturnsForever(m, t, tool, key, v) ==
    \A h \in t..Horizon : Get(m, h, tool, key) = Some(v)

Elements(seq) == {seq[i] : i \in DOMAIN seq}

KeyRank(k) == CHOOSE i \in DOMAIN KeysSorted : KeysSorted[i] = k

Ascending(seq) ==
    \A i, j \in DOMAIN seq : i < j => KeyRank(seq[i]) < KeyRank(seq[j])

\* C7: a set with ttl None or 0 makes get return the value at every later time,
\* across every step that is not a set, delete or clear of that key, also when the
\* key held a value with a positive TTL before.
C7_NoTtlNeverExpires ==
    [][\A tool \in MemTools, key \in MemKeys :
         /\ (/\ lastMem'.op = "set" /\ lastMem'.tool = tool /\ lastMem'.key = key
             /\ lastMem'.ttl \in {None, Some(0)})
            => ReturnsForever(mem', now', tool, key, lastMem'.value[1])
         /\ \A v \in MemValues :
              (ReturnsForever(mem, now, tool, key, v) /\ ~Writes(lastMem', tool, key))
              => ReturnsForever(mem', now', tool, key, v)]_vars

C7_Witness ==
    /\ lastMem.op = "set" /\ lastMem.ttl = Some(0) /\ lastMem.replaced = "expiring"
    /\ now > 0
    /\ ReturnsForever(mem, now, lastMem.tool, lastMem.key, lastMem.value[1])

\* C8: an entry set with ttl = T > 0 is returned by get and listed by list_keys at
\* every time less than T after the set and by neither from T on, whatever steps
\* other than writes of that key (time passing, cleanup_expired, writes of other
\* keys) happen in between; list_keys returns exactly the keys get returns a value
\* for, in ascending order.
C8_TtlExpiry ==
    /\ [](\A tool \in MemTools : \A h \in now..Horizon :
            /\ Ascending(ListKeys(mem, h, tool))
            /\ Elements(ListKeys(mem, h, tool)) =
                  {key \in MemKeys : Get(mem, h, tool, key) # None})
    /\ [][\A tool \in MemTools, key \in MemKeys :
            /\ (/\ lastMem'.op = "set" /\ lastMem'.tool = tool /\ lastMem'.key = key
                /\ lastMem'.ttl # None /\ lastMem'.ttl # Some(0))
               => \A h \in now'..Horizon :
                     Get(mem', h, tool, key) =
                        IF h - now' < lastMem'.ttl[1] THEN lastMem'.value ELSE None
            /\ ~Writes(lastMem', tool, key)
               => \A h \in now'..Horizon :
                     Get(mem', h, tool, key) = Get(mem, h, tool, key)]_vars

C8_Witness ==
    /\ lastMem.op = "tick"
    /\ \E c \in DOMAIN mem :
          /\ mem[c].expires_at # None /\ mem[c].expires_at[1] = now
          /\ Get(mem, now, c[1], c[2]) = None
          /\ c[2] \notin Elements(ListKeys(mem, now, c[1]))
    /\ \E tool \in MemTools : Len(ListKeys(mem, now, tool)) = 2

\* no set, delete or clear issued for one tool changes what get or list_keys return
\* for another tool, now or later
OtherToolsUntouched ==
    lastMem'.op \in {"set", "delete", "clear"}
    => \A other \in MemTools \ {lastMem'.tool} : \A h \in now'..Horizon :
          /\ ListKeys(mem', h, other) = ListKeys(mem, h, other)
          /\ \A key \in MemKeys : Get(mem', h, other, key) = Get(mem, h, other, key)

\* C9 (as stated): memory is isolated per tool, and clear(tool_a) returns the
\* number of tool_a's keys (the keys list_keys(tool_a) returns) and leaves the
\* keys of every other tool intact.
C9_IsolationClearCountsListedKeys ==
    [][/\ OtherToolsUntouched
       /\ lastMem'.op = "clear"
          => /\ lastMem'.rows = Len(ListKeys(mem, now, lastMem'.tool))
             /\ ListKeys(mem', now', lastMem'.tool) = <<>>]_vars

\* C9 (amended): memory is isolated per tool, and clear(tool_a) returns the number
\* of rows stored for tool_a, expired rows that are not yet pruned included, and
\* leaves the keys of every other tool intact.
C9_IsolationClearCountsRows ==
    [][/\ OtherToolsUntouched
       /\ lastMem'.op = "clear"
          => /\ lastMem'.rows = Cardinality({c \in DOMAIN mem : c[1] = lastMem'.tool})
             /\ ListKeys(mem', now', lastMem'.tool) = <<>>
             /\ \A c \in DOMAIN mem' : c[1] # lastMem'.tool]_vars

C9_Witness ==
    /\ lastMem.op = "clear" /\ lastMem.tool = "tool_a" /\ lastMem.rows = 2
    /\ Get(mem, now, "tool_b", "alpha") # None
    /\ Get(mem, now, "tool_a", "alpha") = None

\* C10: cleanup_expired removes exactly the rows whose expiry is reached or passed
\* and returns their number, and get and list_keys return the same for every tool
\* and key right before and right after it.
C10_CleanupRemovesExpiredOnly ==
    [][lastMem'.op = "cleanup_expired"
       => LET expired == {c \in DOMAIN mem :
                             mem[c].expires_at # None /\ mem[c].expires_at[1] <= now}
          IN  /\ DOMAIN mem' = DOMAIN mem \ expired
              /\ \A c \in DOMAIN mem' : mem'[c] = mem[c]
              /\ lastMem'.rows = Cardinality(expired)
              /\ \A tool \in MemTools :
                    /\ ListKeys(mem', now', tool) = ListKeys(mem, now, tool)
                    /\ \A key \in MemKeys :
                          Get(mem', now', tool, key) = Get(mem, now, tool, key)]_vars

C10_Witness ==
    /\ lastMem.op = "cleanup_expired" /\ lastMem.rows = 1
    /\ \E c \in DOMAIN mem : mem[c].expires_at # None /\ mem[c].expires_at[1] > now
    /\ \E c \in DOMAIN mem : mem[c].expires_at = None

-----------------------------------------------------------------------------
(* Concurrent use of the Memory store.  Every Memory method first awaits   *)
(* the RwLock around the connection (read() in get, write() in             *)
(* set_with_ttl), runs its statement, and drops the guard on return.       *)
(* Each invocation writes only the keys of its own tool's cell.            *)

MaxCalls == 5

\* the <<tool, key>> an invocation writes; both invocations read every cell
OwnCells(p) ==
    IF p = "i1" THEN {<<"tool_a", "alpha">>}
    ELSE {<<"tool_a", "beta">>, <<"tool_b", "alpha">>}

\* an invocation calls set(tool, key, value) or get(tool, key)
CallSet(p, cell, value) ==
    /\ conc.pc[p] = "idle"
    /\ conc.issued < MaxCalls
    /\ conc' = [conc EXCEPT !.pc[p] = "await_write",
                            !.call[p] = MemOp("set", cell[1], cell[2], Some(value),
                                              None, 0, ""),
                            !.issued = @ + 1]
    /\ UNCHANGED <<mem, now, lastMem, regVars, runVars>>

CallGet(p, cell) ==
    /\ conc.pc[p] = "idle"
    /\ conc.issued < MaxCalls
    /\ conc' = [conc EXCEPT !.pc[p] = "await_read",
                            !.call[p] = MemOp("get", cell[1], cell[2], None, None, 0, ""),
                            !.issued = @ + 1]
    /\ UNCHANGED <<mem, now, lastMem, regVars, runVars>>

WriteLockFreeUnchecked(c) == TRUE

\* RwLock::write() is granted when no guard of either kind is held
WriteLockFree(c) == c.writers = {} /\ c.readers = {}

\* RwLock::read() is granted when no write guard is held
ReadLockFree(c) == c.writers = {}

\* self.conn.write().await in set_with_ttl
AcquireWrite(p) ==
    /\ conc.pc[p] = "await_write"
    /\ WriteLockFree(conc)
    /\ conc' = [conc EXCEPT !.pc[p] = "writing", !.writers = @ \cup {p}]
    /\ UNCHANGED <<mem, now, lastMem, regVars, runVars>>

\* self.conn.read().await in get
AcquireRead(p) ==
    /\ conc.pc[p] = "await_read"
    /\ ReadLockFree(conc)
    /\ conc' = [conc EXCEPT !.pc[p] = "reading", !.readers = @ \cup {p}]
    /\ UNCHANGED <<mem, now, lastMem, regVars, runVars>>

\* the values set so far under a cell; conc.own[p] keeps, per cell, the value
\* invocation p set last
WrittenTo(c, cell) == IF cell \in DOMAIN c.written THEN c.written[cell] ELSE {}

\* set_with_ttl(tool, key, value, None) under the write guard, then the guard drops
ExecuteSet(p) ==
    LET call == conc.call[p]
        cell == <<call.tool, call.key>>
    IN  /\ conc.pc[p] = "writing"
        /\ mem' = UpsertNoTtl(mem, call.tool, call.key, call.value[1])
        /\ conc' = [conc EXCEPT !.pc[p] = "idle",
                                !.writers = @ \ {p},
                                !.call[p].rows = 1,
                                !.own[p] = (cell :> call.value[1]) @@ @,
                                !.written = (cell :> (WrittenTo(conc, cell)
                                                        \cup {call.value[1]})) @@ @]
        /\ UNCHANGED <<now, lastMem, regVars, runVars>>

\* get(tool, key) under the read guard, then the guard drops; the value
\* returned is kept in call.value
ExecuteGet(p) ==
    LET call == conc.call[p] IN
    /\ conc.pc[p] = "reading"
    /\ conc' = [conc EXCEPT !.pc[p] = "idle",
                            !.readers = @ \ {p},
                            !.call[p].value = Get(mem, now, call.tool, call.key),
                            !.call[p].rows = 1]
    /\ UNCHANGED <<mem, now, lastMem, regVars, runVars>>

CallSetStep ==
    \E p \in Invocations : \E cell \in OwnCells(p), value \in MemValues :
        CallSet(p, cell, value)

CallGetStep == \E p \in Invocations, cell \in MemCells : CallGet(p, cell)

AcquireWriteStep == \E p \in Invocations : AcquireWrite(p)

AcquireReadStep == \E p \in Invocations : AcquireRead(p)

ExecuteSetStep == \E p \in Invocations : ExecuteSet(p)

ExecuteGetStep == \E p \in Invocations : ExecuteGet(p)

NextConc ==
    \/ CallSetStep
    \/ CallGetStep
    \/ AcquireWriteStep
    \/ AcquireReadStep
    \/ ExecuteSetStep
    \/ ExecuteGetStep

SpecConc == Init /\ [][NextConc]_vars

\* C11: writers are serialized (at most one write guard, and none together with a
\* read guard); a get returns only a value that was set for that (tool, key); and
\* a get by an invocation of a key it has set itself returns the value it set,
\* whatever the other invocation, which writes other keys, does in between.
C11_ReadObservesOwnWrite ==
    /\ [](/\ Cardinality(conc.writers) <= 1
          /\ conc.writers # {} => conc.readers = {})
    /\ [][\A p \in Invocations :
            (conc.pc[p] = "reading" /\ conc'.pc[p] = "idle")
            => LET call == conc'.call[p]
                   cell == <<call.tool, call.key>>
               IN  /\ call.value # None => call.value[1] \in WrittenTo(conc, cell)
                   /\ cell \in DOMAIN conc.own[p]
                      => call.value = Some(conc.own[p][cell])]_vars

C11_Witness ==
    /\ conc.pc["i1"] = "idle" /\ conc.call["i1"].op = "get" /\ conc.call["i1"].rows = 1
    /\ conc.call["i1"].value = Some("Y")
    /\ WrittenTo(conc, <<"tool_a", "alpha">>) = {"X", "Y"}
    /\ WrittenTo(conc, <<"tool_a", "beta">>) # {}
    /\ conc.pc["i2"] = "await_write"

-----------------------------------------------------------------------------
(* Script executor: ToolRuntime::call_script_tool and the subprocess it     *)
(* spawns.  A JSON value is a record tagged with its kind; a stdout line is *)
(* the raw text the script wrote together with the JSON members it holds.   *)

MaxLines == 2

JNull == [kind |-> "null"]
JStr(s) == [kind |-> "string", val |-> s]
JNum(n) == [kind |-> "number", val |-> n]
JObj(fields) == [kind |-> "object", val |-> fields]
JBool(b) == [kind |-> "bool", val |-> b]

ObjEmpty == JObj(<<>>)
ObjText == JObj([text |-> JStr("hello world")])
ObjN == JObj([n |-> JNum(1)])

\* serde_json::from_str on the texts used: the value each text decodes to
JsonTexts ==
    {<<"{}", ObjEmpty>>,
     <<"{\"text\":\"hello world\"}", ObjText>>,
     <<"{ \"text\" : \"hello world\" }", ObjText>>,
     <<"{\"n\":1}", ObjN>>,
     <<"42", JNum(42)>>,
     <<"null", JNull>>,
     <<"\"{}\"", JStr("{}")>>}

\* serde_json::from_str(s): Ok(value) as Some(value), Err as None
FromStr(s) ==
    IF \E e \in JsonTexts : e[1] = s
    THEN Some((CHOOSE e \in JsonTexts : e[1] = s)[2])
    ELSE None

\* the argument values callers pass
ArgValues ==
    {ObjEmpty, ObjText, ObjN, JNum(42),
     JStr("hello world"), JStr("{\"text\":\"hello world\"")}
    \cup {JStr(e[1]) : e \in JsonTexts}

ArgumentsPassedThrough(args) == args

\* "Ensure arguments is an object, not a string"
Arguments(args) ==
    IF args.kind = "string"
    THEN IF FromStr(args.val) # None THEN FromStr(args.val)[1] ELSE args
    ELSE args

ClientCapabilities(sampling, elicitation) ==
    [sampling |-> sampling, elicitation |-> elicitation]

\* the top-level request: method execute, id 1
JsonRpcRequest(arguments, capabilities) ==
    [jsonrpc |-> "2.0",
     method  |-> "execute",
     params  |-> [arguments |-> arguments,
                  context   |-> [tool_name |-> "t", capabilities |-> capabilities]],
     id      |-> 1]

\* a stdout line that is not JSON
TextLine(text) == [text |-> text, json |-> FALSE]

\* a stdout line holding a JSON object with the given members; a member that is
\* absent is None, a member that is JSON null is Some(JNull)
JsonLine(text, jsonrpc, method, params, result, error, id) ==
    [text |-> text, json |-> TRUE, jsonrpc |-> jsonrpc, method |-> method,
     params |-> params, result |-> result, error |-> error, id |-> id]

LineBlank == TextLine("")
LineText == TextLine("hello")
LineNotRpc ==
    JsonLine("{\"status\":\"ok\"}", None, None, None, None, None, None)
LineLog ==
    JsonLine("{\"jsonrpc\":\"2.0\",\"method\":\"log\",\"params\":{\"level\":\"info\",\"message\":\"m\"}}",
             Some("2.0"), Some("log"),
             Some([level |-> Some("info"), message |-> Some("m"), data |-> None]),
             None, None, None)
LineSampling ==
    JsonLine("{\"jsonrpc\":\"2.0\",\"method\":\"sampling/createMessage\",\"params\":{},\"id\":7}",
             Some("2.0"), Some("sampling/createMessage"), Some(<<>>), None, None, Some(7))
LineResult1 ==
    JsonLine("{\"jsonrpc\":\"2.0\",\"result\":\"R1\",\"id\":1}",
             Some("2.0"), None, None, Some(JStr("R1")), None, Some(1))
LineResult2 ==
    JsonLine("{\"jsonrpc\":\"2.0\",\"result\":\"R2\",\"id\":1}",
             Some("2.0"), None, None, Some(JStr("R2")), None, Some(1))
LineResultNull ==
    JsonLine("{\"jsonrpc\":\"2.0\",\"result\":null,\"id\":1}",
             Some("2.0"), None, None, Some(JNull), None, Some(1))
LineError ==
    JsonLine("{\"jsonrpc\":\"2.0\",\"error\":{\"code\":-1,\"message\":\"boom\"},\"id\":1}",
             Some("2.0"), None, None, None,
             Some([code |-> -1, message |-> "boom", data |-> None]), Some(1))
LineResultOtherId ==
    JsonLine("{\"jsonrpc\":\"2.0\",\"result\":\"R3\",\"id\":2}",
             Some("2.0"), None, None, Some(JStr("R3")), None, Some(2))
LineResultNoId ==
    JsonLine("{\"jsonrpc\":\"2.0\",\"result\":\"R4\"}",
             Some("2.0"), None, None, Some(JStr("R4")), None, None)

Lines ==
    {LineBlank, LineText, LineNotRpc, LineLog, LineSampling, LineResult1, LineResult2,
     LineResultNull, LineError, LineResultOtherId, LineResultNoId}

\* Option<T> under #[serde(default)]: an absent member and JSON null are both None
OptionMember(member) == IF member = Some(JNull) THEN None ELSE member

\* serde_json::from_str::<JsonRpcResponse>(&line): jsonrpc is required
ParseJsonRpcResponse(line) ==
    IF ~line.json THEN None
    ELSE IF line.jsonrpc = None THEN None
    ELSE Some([jsonrpc |-> line.jsonrpc[1],
               result  |-> OptionMember(line.result),
               error   |-> line.error,
               method  |-> line.method,
               params  |-> line.params,
               id      |-> line.id])

\* serde_json::from_value::<LogEntry>(params): level and message are required
ParseLogEntry(params) ==
    IF "level" \in DOMAIN params /\ "message" \in DOMAIN params
       /\ params.level # None /\ params.message # None
    THEN Some([level |-> params.level[1], message |-> params.message[1],
               data |-> params.data])
    ELSE None

\* format!("Error {}: {}", error.code, error.message), with "\nData: {}" appended
FormatError(error) ==
    LET head == "Error " \o ToString(error.code) \o ": " \o error.message
    IN  IF error.data # None THEN head \o "\nData: " \o error.data[1] ELSE head

\* the body of the stdout loop for one line: the executor's locals after it
ProcessLine(st, line) ==
    IF line.text = "" THEN st
    ELSE LET parsed == ParseJsonRpcResponse(line) IN
         IF parsed # None
         THEN LET response == parsed[1] IN
              IF response.method # None
              THEN IF response.method[1] \in {"log", "logging/message"}
                   THEN IF response.params # None
                           /\ ParseLogEntry(response.params[1]) # None
                        THEN [st EXCEPT !.logs =
                                 Append(@, ParseLogEntry(response.params[1])[1])]
                        ELSE st
                   ELSE st
              ELSE IF response.error # None
                   THEN [st EXCEPT !.final_error = Some(FormatError(response.error[1]))]
                   ELSE IF response.result # None
                        THEN [st EXCEPT !.final_result = response.result]
                        ELSE st
         ELSE IF st.final_result = None
              THEN [st EXCEPT !.final_result = Some(JStr(line.text))]
              ELSE st

\* "Determine final output"
FinalOutput(st, status) ==
    IF st.final_error # None THEN JStr(st.final_error[1])
    ELSE IF st.final_result # None THEN st.final_result[1]
    ELSE IF status # 0
         THEN JStr("Script exited with status: exit status: " \o ToString(status))
         ELSE JStr("Script completed with no output")

\* stderr, when not empty, is added as a log entry of level error
WithStderr(logs, stderr) ==
    IF stderr # ""
    THEN Append(logs, [level |-> "error", message |-> stderr, data |-> None])
    ELSE logs

\* call_script_tool(config, args) up to the stdout loop: the request is written to
\* the subprocess's stdin, which stays open until child.wait()
CallScriptTool(args, capabilities) ==
    /\ script.phase = "idle"
    /\ script' = [script EXCEPT
                     !.phase = "reading",
                     !.args = Some(args),
                     !.stdin = <<JsonRpcRequest(Arguments(args), capabilities)>>,
                     !.stdin_open = TRUE]
    /\ UNCHANGED <<regVars, memVars, conc, pipe, eval, hostVars>>

\* the subprocess writes a line to stdout; wait: it then blocks reading stdin for
\* the response to the request it wrote
ScriptWrites(line, wait) ==
    /\ script.phase = "reading"
    /\ script.exited = None
    /\ ~script.blocked
    /\ Len(script.emitted) < MaxLines
    /\ script' = [script EXCEPT
                     !.emitted = Append(@, line),
                     !.blocked = wait /\ line.json /\ line.method # None
                                      /\ line.id # None]
    /\ UNCHANGED <<regVars, memVars, conc, pipe, eval, hostVars>>

\* the subprocess exits, closing its stdout, with what it wrote to stderr
ScriptExits(status, stderr) ==
    /\ script.phase = "reading"
    /\ script.exited = None
    /\ ~script.blocked
    /\ script' = [script EXCEPT !.exited = Some([status |-> status, stderr |-> stderr])]
    /\ UNCHANGED <<regVars, memVars, conc, pipe, eval, hostVars>>

\* one iteration of "for line in reader.lines()"
ReadLine ==
    /\ script.phase = "reading"
    /\ script.read < Len(script.emitted)
    /\ script' = [ProcessLine(script, script.emitted[script.read + 1])
                     EXCEPT !.read = script.read + 1]
    /\ UNCHANGED <<regVars, memVars, conc, pipe, eval, hostVars>>

\* end of stdout: child.wait(), stderr, final output, Ok(ScriptResult)
ReturnResult ==
    /\ script.phase = "reading"
    /\ script.exited # None
    /\ script.read = Len(script.emitted)
    /\ LET logs == WithStderr(script.logs, script.exited[1].stderr) IN
       script' = [script EXCEPT
                     !.phase = "done",
                     !.stdin_open = FALSE,
                     !.logs = logs,
                     !.outcome = Some([ok       |-> TRUE,
                                       output   |-> FinalOutput(script,
                                                                script.exited[1].status),
                                       logs     |-> logs,
                                       progress |-> script.progress])]
    /\ UNCHANGED <<regVars, memVars, conc, pipe, eval, hostVars>>

\* the call-level deadline passes while the subprocess has neither closed stdout
\* nor exited; nothing in call_script_tool observes it
DeadlinePasses ==
    /\ script.phase = "reading"
    /\ script.exited = None
    /\ ~script.expired
    /\ script' = [script EXCEPT !.expired = TRUE]
    /\ UNCHANGED <<regVars, memVars, conc, pipe, eval, hostVars>>

CallScriptToolStep ==
    \E args \in ArgValues, sampling \in BOOLEAN :
        CallScriptTool(args, ClientCapabilities(sampling, FALSE))

ScriptWritesStep == \E line \in Lines, wait \in BOOLEAN : ScriptWrites(line, wait)

ScriptExitsStep == \E status \in {0, 1}, stderr \in {"", "trace"} : ScriptExits(status, stderr)

NextRun ==
    \/ CallScriptToolStep
    \/ ScriptWritesStep
    \/ ScriptExitsStep
    \/ ReadLine
    \/ ReturnResult
    \/ DeadlinePasses

SpecRun == Init /\ [][NextRun]_vars

-----------------------------------------------------------------------------
(* Properties of the script executor                                       *)

\* the arguments member of the top-level execute request written to stdin
SentArguments == script.stdin[1].params.arguments

\* C12: for every JSON object O, a call with arguments O and a call with a JSON
\* string whose contents decode to O both send arguments = O in the execute request.
C12_StringArgumentsDecoded ==
    script.phase # "idle" =>
        /\ script.stdin[1].method = "execute"
        /\ script.args[1].kind = "object" => SentArguments = script.args[1]
        /\ \A e \in JsonTexts :
              (e[2].kind = "object" /\ script.args[1] = JStr(e[1]))
              => SentArguments = e[2]

C12_Witness ==
    /\ script.phase = "done"
    /\ script.args = Some(JStr("{ \"text\" : \"hello world\" }"))
    /\ SentArguments = ObjText
    /\ SentArguments.val.text = JStr("hello world")

\* a stdout line that is a JSON-RPC message
IsJsonRpc(line) == line.json /\ line.jsonrpc # None

\* a JSON-RPC line with method and id: a brokered request
IsRequest(line) == IsJsonRpc(line) /\ line.method # None /\ line.id # None

\* a JSON-RPC line without method that carries result or error: a response
IsResponse(line) ==
    IsJsonRpc(line) /\ line.method = None /\ (line.result # None \/ line.error # None)

\* a response whose id is the id of the top-level request: a final response
IsFinalResponse(line) == IsResponse(line) /\ line.id = Some(script.stdin[1].id)

\* what a response carries: its error, formatted, or else its result
ResponseValue(line) ==
    IF line.error # None THEN JStr(FormatError(line.error[1])) ELSE line.result[1]

Returned == script.outcome[1]

\* C13 (as stated): a stdout line that is not a JSON-RPC message is the result of
\* the invocation only if no structured final response (result or error) is
\* anywhere in the stream, before or after that line.
C13_TextOnlyWithoutFinalResponse ==
    script.phase = "done" =>
        \A i \in DOMAIN script.emitted :
            (/\ ~IsJsonRpc(script.emitted[i])
             /\ script.emitted[i].text # ""
             /\ Returned.output = JStr(script.emitted[i].text))
            => \A j \in DOMAIN script.emitted : ~IsFinalResponse(script.emitted[j])

\* C14 (as stated): an invocation that ends with no structured response and no
\* retained text line yields the successful result "Script completed with no
\* output" on exit 0, and on a non-zero exit an error (NonZeroExit), not a
\* successful result value.
C14_ExitStatusDecides ==
    (/\ script.phase = "done"
     /\ script.final_result = None
     /\ script.final_error = None)
    => IF script.exited[1].status = 0
       THEN Returned.ok /\ Returned.output = JStr("Script completed with no output")
       ELSE ~Returned.ok

\* the ids of the brokered requests among lines, in order
RequestIds(lines) ==
    LET requests == SelectSeq(lines, IsRequest)
    IN  [i \in DOMAIN requests |-> requests[i].id[1]]

\* the ids of the responses written to stdin after the top-level request
ResponseIds(stdin) == [i \in 1..(Len(stdin) - 1) |-> stdin[i + 1].id]

\* C15 (as stated): the executor reads a further stdout line, or returns, only
\* when every brokered request read so far has got exactly one response on stdin,
\* the responses in the order of the requests.
C15_RequestsAnsweredInOrder ==
    [][(script.phase = "reading"
        /\ (script'.read = script.read + 1 \/ script'.phase = "done"))
       => ResponseIds(script.stdin)
             = RequestIds(SubSeq(script.emitted, 1, script.read))]_vars

\* C16 (as stated): once a sampling/createMessage request is read while the
\* client did not advertise sampling, stdin holds a reply to it that is an error
\* object with message "sampling not supported" and no result.
C16_UnadvertisedCapabilityRefused ==
    \A i \in 1..script.read :
        (/\ IsRequest(script.emitted[i])
         /\ script.emitted[i].method = Some("sampling/createMessage")
         /\ ~script.stdin[1].params.context.capabilities.sampling)
        => \E k \in 2..Len(script.stdin) :
              /\ script.stdin[k].id = script.emitted[i].id[1]
              /\ script.stdin[k].error.message = "sampling not supported"
              /\ script.stdin[k].result = None

\* C17 (as stated): when the deadline passes before the subprocess closes stdout
\* or exits, the invocation is over: the caller has an error (Timeout), with the
\* log entries collected so far.
C17_DeadlineEndsInvocation ==
    script.expired =>
        /\ script.phase = "done"
        /\ ~Returned.ok
        /\ Returned.logs = script.logs

\* C18 (as stated): the first response whose id is the top-level request's id is
\* the final response; any other response (a second one, or one with a missing or
\* different id) is reported as an error (ProtocolViolation) and the value returned
\* is never taken from it.
C18_OneFinalResponse ==
    script.phase = "done" =>
        \A j \in DOMAIN script.emitted :
            (/\ IsResponse(script.emitted[j])
             /\ \/ ~IsFinalResponse(script.emitted[j])
                \/ \E i \in 1..(j - 1) : IsFinalResponse(script.emitted[i]))
            => /\ ~Returned.ok
               /\ Returned.output # ResponseValue(script.emitted[j])

-----------------------------------------------------------------------------
(* Pipeline executor (AppState::execute_pipeline, pipeline.rs)              *)

MaxSteps == 2

\* anyhow::Result<T>
Ok(v) == [ok |-> TRUE, val |-> v]
Err(e) == [ok |-> FALSE, err |-> e]

\* the pipeline's own input value
Input == JObj([n |-> JNum(1)])

\* PipelineStep: the manifests' steps drawn below
StepNames == {None, Some("a")}
CalledTools == {"echo", "missing"}
StepArgs == {JNull, JStr("$prev"), JStr("$a.x")}
StepConditions == {None, Some("$prev"), Some("$input.n == 2")}

PipelineStep ==
    [name : StepNames, tool : CalledTools, args : StepArgs,
     continue_on_error : BOOLEAN, condition : StepConditions]

\* ToolConfig::pipeline_steps of the pipelines called
Pipelines == UNION {[1..n -> PipelineStep] : n \in 0..MaxSteps}

\* str::starts_with
StartsWith(s, p) == Len(s) >= Len(p) /\ SubSeq(s, 1, Len(p)) = p

\* the positions of `s` at which `p` begins
Occurrences(s, p) ==
    {i \in 1..(Len(s) - Len(p) + 1) : SubSeq(s, i, i + Len(p) - 1) = p}

\* str::contains
Contains(s, p) == Occurrences(s, p) # {}

Least(S) == CHOOSE m \in S : \A n \in S : m <= n

\* str::split(p).collect::<Vec<&str>>()
RECURSIVE Split(_, _)
Split(s, p) ==
    IF Occurrences(s, p) = {}
    THEN <<s>>
    ELSE LET i == Least(Occurrences(s, p)) IN
         <<SubSeq(s, 1, i - 1)>> \o Split(SubSeq(s, i + Len(p), Len(s)), p)

\* str::trim_start_matches(c), for a character c
RECURSIVE TrimStartMatches(_, _)
TrimStartMatches(s, c) ==
    IF StartsWith(s, c) THEN TrimStartMatches(SubSeq(s, 2, Len(s)), c) ELSE s

RECURSIVE TrimEndMatches(_, _)
TrimEndMatches(s, c) ==
    IF Len(s) > 0 /\ SubSeq(s, Len(s), Len(s)) = c
    THEN TrimEndMatches(SubSeq(s, 1, Len(s) - 1), c)
    ELSE s

\* str::trim_matches(c)
TrimMatches(s, c) == TrimEndMatches(TrimStartMatches(s, c), c)

\* str::trim, the white space of the texts used being the space
Trim(s) == TrimMatches(s, " ")

JArr(items) == [kind |-> "array", val |-> items]

\* serde_json::Number holding an f64: m / 10^e, with no trailing zero in m when e > 0
JFloat(m, e) == [kind |-> "number", float |-> <<m, e>>]

IsFloat(value) == value.kind = "number" /\ "float" \in DOMAIN value

\* serde_json::Value::get(&str): a member of an object, None for any other value
ValueGet(value, key) ==
    IF value.kind = "object" /\ key \in DOMAIN value.val
    THEN Some(value.val[key])
    ELSE None

\* a variant of the navigation in which a missing field reads as null
NavigateOrNull(current, path, source) ==
    IF path = <<>>
    THEN Ok(current)
    ELSE IF ValueGet(current, Head(path)) = None
         THEN Ok(JNull)
         ELSE Ok(ValueGet(current, Head(path))[1])

\* resolve_variable: "Navigate the path"
RECURSIVE Navigate(_, _, _)
Navigate(current, path, source) ==
    IF path = <<>>
    THEN Ok(current)
    ELSE LET next == ValueGet(current, Head(path)) IN
         IF next = None
         THEN Err("Field '" \o Head(path) \o "' not found in " \o source)
         ELSE Navigate(next[1], Tail(path), source)

\* PipelineExecutor::resolve_variable
ResolveVariable(reference, input, step_results, prev_output) ==
    LET var    == TrimStartMatches(reference, "$")
        parts  == Split(var, ".")
        source == parts[1]
        path   == Tail(parts)
    IN
    IF var = "prev"
    THEN IF prev_output = None
         THEN Err("No previous step output available")
         ELSE Ok(prev_output[1])
    ELSE IF source = "input"
    THEN Navigate(input, path, source)
    ELSE IF source = "prev"
    THEN IF prev_output = None
         THEN Err("No previous step output available")
         ELSE Navigate(prev_output[1], path, source)
    ELSE IF source \in DOMAIN step_results
         THEN Navigate(step_results[source], path, source)
         ELSE Err("Step '" \o source \o "' not found or not yet executed")

\* a variant of resolve_args that does not descend into objects and arrays
ResolveArgsShallow(args, input, step_results, prev_output) ==
    IF args.kind = "string" /\ StartsWith(args.val, "$")
    THEN ResolveVariable(args.val, input, step_results, prev_output)
    ELSE Ok(args)

\* PipelineExecutor::resolve_args; of several failing members the error is that
\* of one of them
RECURSIVE ResolveArgs(_, _, _, _)
ResolveArgs(args, input, step_results, prev_output) ==
    CASE args.kind = "string" ->
            IF StartsWith(args.val, "$")
            THEN ResolveVariable(args.val, input, step_results, prev_output)
            ELSE Ok(args)
      [] args.kind \in {"object", "array"} ->
            LET resolved == [k \in DOMAIN args.val |->
                                ResolveArgs(args.val[k], input, step_results, prev_output)]
                failed   == {k \in DOMAIN args.val : ~resolved[k].ok}
            IN
            IF failed # {}
            THEN resolved[CHOOSE k \in failed : TRUE]
            ELSE Ok([kind |-> args.kind,
                     val  |-> [k \in DOMAIN args.val |-> resolved[k].val]])
      [] OTHER -> Ok(args)

\* the truthiness match of evaluate_condition
Truthy(value) ==
    CASE value.kind = "bool"   -> value.val
      [] value.kind = "null"   -> FALSE
      [] value.kind = "string" -> value.val # ""
      [] value.kind = "number" ->
            IF IsFloat(value) THEN value.float[1] # 0 ELSE value.val # 0
      [] value.kind = "array"  -> value.val # <<>>
      [] value.kind = "object" -> DOMAIN value.val # {}

Digits == "0123456789"

IsDigits(s) ==
    Len(s) > 0 /\ \A i \in 1..Len(s) : Contains(Digits, SubSeq(s, i, i))

RECURSIVE DigitsValue(_)
DigitsValue(s) ==
    IF s = ""
    THEN 0
    ELSE DigitsValue(SubSeq(s, 1, Len(s) - 1)) * 10
         + (Least(Occurrences(Digits, SubSeq(s, Len(s), Len(s)))) - 1)

\* the text after an optional sign
Unsigned(s) == IF StartsWith(s, "-") \/ StartsWith(s, "+") THEN SubSeq(s, 2, Len(s)) ELSE s

Signed(s, n) == IF StartsWith(s, "-") THEN 0 - n ELSE n

\* str::parse::<i64>, for texts short enough not to overflow
ParseI64(s) ==
    IF IsDigits(Unsigned(s)) THEN Some(Signed(s, DigitsValue(Unsigned(s)))) ELSE None

\* the texts str::parse::<f64> reads as an infinity or a NaN
NonFinite == {"inf", "Inf", "INF", "infinity", "Infinity", "nan", "NaN", "NAN"}

RECURSIVE Normalized(_, _)
Normalized(m, e) ==
    IF e > 0 /\ m % 10 = 0 THEN Normalized(m \div 10, e - 1) ELSE <<m, e>>

\* str::parse::<f64>, for decimal texts without exponent: Some(<<m, e>>) for
\* m / 10^e, Some(<<>>) for a non-finite value, None when the text is no number
ParseF64(s) ==
    LET body  == Unsigned(s)
        parts == Split(body, ".")
    IN
    IF body \in NonFinite
    THEN Some(<<>>)
    ELSE IF Len(parts) = 1 /\ IsDigits(body)
    THEN Some(<<Signed(s, DigitsValue(body)), 0>>)
    ELSE IF /\ Len(parts) = 2
            /\ parts[1] \o parts[2] # ""
            /\ parts[1] = "" \/ IsDigits(parts[1])
            /\ parts[2] = "" \/ IsDigits(parts[2])
    THEN Some(Normalized(Signed(s, DigitsValue(parts[1] \o parts[2])), Len(parts[2])))
    ELSE None

\* serde_json::json!(f64): a number, or null for a value that is not finite
JsonF64(f) == IF f = <<>> THEN JNull ELSE JFloat(f[1], f[2])

\* PipelineExecutor::resolve_condition_value
ResolveConditionValue(text, input, step_results, prev_output) ==
    LET value == Trim(text) IN
    IF StartsWith(value, "$")
    THEN ResolveVariable(value, input, step_results, prev_output)
    ELSE IF value = "true" THEN Ok(JBool(TRUE))
    ELSE IF value = "false" THEN Ok(JBool(FALSE))
    ELSE IF value = "null" THEN Ok(JNull)
    ELSE IF ParseI64(value) # None THEN Ok(JNum(ParseI64(value)[1]))
    ELSE IF ParseF64(value) # None THEN Ok(JsonF64(ParseF64(value)[1]))
    ELSE Ok(JStr(TrimMatches(TrimMatches(value, "\""), "'")))

\* the == and != branches of evaluate_condition
Compare(condition, operator, input, step_results, prev_output) ==
    LET split == Split(condition, operator)
        left  == ResolveConditionValue(split[1], input, step_results, prev_output)
        right == ResolveConditionValue(split[2], input, step_results, prev_output)
    IN
    IF Len(split) # 2
    THEN Err("Invalid condition: " \o condition)
    ELSE IF ~left.ok THEN left
    ELSE IF ~right.ok THEN right
    ELSE Ok(IF operator = "==" THEN left.val = right.val ELSE left.val # right.val)

\* PipelineExecutor::evaluate_condition
EvaluateCondition(text, input, step_results, prev_output) ==
    LET condition == Trim(text)
        value == ResolveConditionValue(condition, input, step_results, prev_output)
    IN
    IF Contains(condition, "==")
    THEN Compare(condition, "==", input, step_results, prev_output)
    ELSE IF Contains(condition, "!=")
    THEN Compare(condition, "!=", input, step_results, prev_output)
    ELSE IF value.ok THEN Ok(Truthy(value.val)) ELSE value

\* the tools the registry holds while the pipeline runs
RegisteredTools == {"echo"}

\* what a registered tool's run can hand back to call_tool_by_name
ToolOutputs == {JNull, JObj([x |-> JStr("out")])}

\* Runtime::call_tool_by_name: every outcome the call can have
CallToolByName(tool_name) ==
    IF tool_name \notin RegisteredTools
    THEN {Err("Tool '" \o tool_name \o "' not found")}
    ELSE {Ok(v) : v \in ToolOutputs} \cup {Err("tool failed")}

\* pipeline::StepResult (without duration_ms)
StepResult(step_index, step, success, output, error) ==
    [step_index |-> step_index,
     step_name  |-> step.name,
     tool       |-> step.tool,
     success    |-> success,
     output     |-> output,
     error      |-> error]

Skipped == JObj([skipped |-> JBool(TRUE), reason |-> JStr("condition not met")])

\* the header's word: "Completed" or "Failed"
Header(pipeline_success) == IF pipeline_success THEN "Completed" ELSE "Failed"

\* the code after the loop: the formatted result is returned
FormatResult(p) ==
    [p EXCEPT !.phase = "returned", !.header = Some(Header(p.pipeline_success))]

\* variants of the test made after a failed step
BreaksNever(step_failed, continue_on_error) == FALSE

BreaksOnAnyFailure(step_failed, continue_on_error) == step_failed

\* `if step_failed && !step.continue_on_error` and the two
\* `if !step.continue_on_error` after a failed StepResult
Breaks(step_failed, continue_on_error) == step_failed /\ ~continue_on_error

\* the end of one iteration: a StepResult was pushed; break, continue or leave
\* the loop after the last step
EndIteration(p, result, step) ==
    LET pushed == [p EXCEPT !.results = Append(@, result), !.i = @ + 1] IN
    IF Breaks(~result.success, step.continue_on_error)
    THEN FormatResult([pushed EXCEPT !.pipeline_success = FALSE])
    ELSE IF pushed.i = Len(p.steps) THEN FormatResult(pushed) ELSE pushed

\* the iteration once the tool call has returned `result`
AfterCall(p, step, result) ==
    LET output == IF result.ok THEN result.val ELSE JNull
        error  == IF result.ok THEN None ELSE Some(result.err)
        named  == IF step.name = None
                  THEN p.step_results
                  ELSE [n \in DOMAIN p.step_results \cup {step.name[1]} |->
                           IF n = step.name[1] THEN output ELSE p.step_results[n]]
        called == [p EXCEPT !.invoked = Append(@, p.i),
                            !.step_results = named,
                            !.prev_output = Some(output)]
    IN EndIteration(called, StepResult(p.i, step, result.ok, output, error), step)

\* execute_pipeline up to the loop
ExecutePipeline(steps) ==
    /\ pipe.phase = "idle"
    /\ LET started == [PipeInit EXCEPT !.phase = "running", !.steps = steps] IN
       pipe' = IF Len(steps) = 0 THEN FormatResult(started) ELSE started
    /\ UNCHANGED <<regVars, memVars, conc, script, eval, hostVars>>

\* a variant of the condition match that never skips
ConditionIgnored(cond) == TRUE

\* the arms Ok(true) and Ok(false) of the match on evaluate_condition
ConditionMet(cond) == cond.val

\* one iteration of `for (i, step) in steps.iter().enumerate()`, the outcomes
\* of the step's tool call being Outcomes(step.tool)
IterationCalling(Outcomes(_)) ==
    /\ pipe.phase = "running"
    /\ LET step == pipe.steps[pipe.i + 1]
           cond == IF step.condition = None
                   THEN Ok(TRUE)
                   ELSE EvaluateCondition(step.condition[1], Input,
                                          pipe.step_results, pipe.prev_output)
           args == ResolveArgs(step.args, Input, pipe.step_results, pipe.prev_output)
       IN
       IF ~cond.ok
       THEN pipe' = EndIteration(pipe,
                        StepResult(pipe.i, step, FALSE, JNull,
                            Some("Condition evaluation failed: " \o cond.err)),
                        step)
       ELSE IF ~ConditionMet(cond)
       THEN pipe' = EndIteration(pipe, StepResult(pipe.i, step, TRUE, Skipped, None), step)
       ELSE IF ~args.ok
       THEN pipe' = EndIteration(pipe,
                        StepResult(pipe.i, step, FALSE, JNull,
                            Some("Failed to resolve arguments: " \o args.err)),
                        step)
       ELSE \E result \in Outcomes(step.tool) :
                pipe' = AfterCall(pipe, step, result)
    /\ UNCHANGED <<regVars, memVars, conc, script, eval, hostVars>>

\* the iteration of a run whose registry holds RegisteredTools
Iteration == IterationCalling(CallToolByName)

ExecutePipelineStep ==
    /\ pipe.phase = "idle"
    /\ \E steps \in Pipelines : ExecutePipeline(steps)

NextPipe ==
    \/ ExecutePipelineStep
    \/ Iteration

SpecPipe == Init /\ [][NextPipe]_vars

-----------------------------------------------------------------------------
(* Properties of the pipeline executor                                      *)

\* the results of steps that failed although continue_on_error was false
FatalFailures ==
    {k \in DOMAIN pipe.results :
        /\ ~pipe.results[k].success
        /\ ~pipe.steps[pipe.results[k].step_index + 1].continue_on_error}

\* C19: steps are taken one at a time in declared order (the k-th result is the
\* result of step k-1, and tools are invoked in increasing step order, each step
\* at most once); once a step has failed with continue_on_error = false the run
\* is over and marked failed, no later step's tool has been invoked, and the
\* results returned are exactly those of steps 0 through the failing step.
C19_SequentialAbortOnFailure ==
    /\ \A k \in DOMAIN pipe.results : pipe.results[k].step_index = k - 1
    /\ \A a, b \in DOMAIN pipe.invoked : a < b => pipe.invoked[a] < pipe.invoked[b]
    /\ \A a \in DOMAIN pipe.invoked : pipe.invoked[a] < Len(pipe.results)
    /\ \A k \in FatalFailures :
          /\ pipe.phase = "returned"
          /\ ~pipe.pipeline_success
          /\ pipe.header = Some("Failed")
          /\ Len(pipe.results) = k
          /\ \A a \in DOMAIN pipe.invoked : pipe.invoked[a] <= k - 1

C19_Witness ==
    /\ pipe.phase = "returned"
    /\ Len(pipe.steps) = 2
    /\ Len(pipe.results) = 1
    /\ pipe.invoked = <<0>>
    /\ ~pipe.results[1].success
    /\ pipe.header = Some("Failed")

\* C20: the run is marked failed exactly when some executed step failed while
\* its continue_on_error was false; a step result is a failure exactly when it
\* carries an error (of the tool, of the resolution of the arguments or of the
\* condition); and after a failed step with continue_on_error = true the failed
\* result is recorded, the run is not marked failed by it and the next step is
\* taken.
C20_FailedIffFatalStep ==
    /\ [](/\ pipe.pipeline_success = (FatalFailures = {})
          /\ pipe.phase = "returned" =>
                pipe.header = Some(IF FatalFailures = {} THEN "Completed" ELSE "Failed")
          /\ \A k \in DOMAIN pipe.results :
                pipe.results[k].success = (pipe.results[k].error = None)
          /\ (pipe.phase = "returned" /\ FatalFailures = {}) =>
                Len(pipe.results) = Len(pipe.steps))
    /\ [][(/\ pipe.phase = "running"
           /\ Len(pipe'.results) = Len(pipe.results) + 1
           /\ ~pipe'.results[Len(pipe'.results)].success
           /\ pipe.steps[pipe.i + 1].continue_on_error)
          => /\ pipe'.pipeline_success = pipe.pipeline_success
             /\ pipe'.i = pipe.i + 1
             /\ pipe'.i < Len(pipe.steps) => pipe'.phase = "running"]_vars

C20_Witness ==
    /\ pipe.phase = "returned"
    /\ Len(pipe.results) = 2
    /\ ~pipe.results[1].success
    /\ pipe.steps[1].continue_on_error
    /\ pipe.invoked = <<0, 1>>
    /\ pipe.results[2].success
    /\ pipe.header = Some("Completed")

\* the StepResult pushed by the step taken, when one was pushed
Pushed == pipe'.results[Len(pipe'.results)]

StepTaken ==
    /\ pipe.phase = "running"
    /\ Len(pipe'.results) = Len(pipe.results) + 1

\* C21 (as stated): prev_output and step_results are written only by a step
\* that succeeds; after a step that failed, $prev is still the output of the last
\* successful step and the name of the failed step is not bound by it.
C21_OnlySuccessUpdatesPrev ==
    [][(StepTaken /\ ~Pushed.success)
       => /\ pipe'.prev_output = pipe.prev_output
          /\ pipe'.step_results = pipe.step_results]_vars

\* the condition of the step about to be taken, evaluated as the loop does
NextCondition ==
    LET step == pipe.steps[pipe.i + 1] IN
    IF step.condition = None
    THEN Ok(TRUE)
    ELSE EvaluateCondition(step.condition[1], Input, pipe.step_results, pipe.prev_output)

\* C22: a step whose condition is present and evaluates to false pushes a skipped
\* result (success, output {"skipped": true, ...}, no error); its tool is not
\* invoked, no error of its arguments is reported, prev_output and step_results
\* are unchanged, the run is not marked failed, and the next step is taken.
C22_FalseConditionSkips ==
    [][(/\ pipe.phase = "running"
        /\ pipe' # pipe
        /\ NextCondition.ok
        /\ ~NextCondition.val)
       => /\ pipe'.results =
                Append(pipe.results,
                       StepResult(pipe.i, pipe.steps[pipe.i + 1], TRUE, Skipped, None))
          /\ pipe'.invoked = pipe.invoked
          /\ pipe'.prev_output = pipe.prev_output
          /\ pipe'.step_results = pipe.step_results
          /\ pipe'.pipeline_success = pipe.pipeline_success
          /\ pipe'.i = pipe.i + 1
          /\ pipe'.i < Len(pipe.steps) => pipe'.phase = "running"]_vars

C22_Witness ==
    /\ Len(pipe.results) = 2
    /\ pipe.results[1].output = Skipped
    /\ pipe.steps[1].condition # None
    /\ pipe.steps[1].args = JStr("$prev")
    /\ pipe.invoked = <<1>>

\* the step about to be taken refers to something that is not there: $prev
\* without a previous output, a step name that is not bound, or a field the
\* bound output does not have
DanglingReference ==
    LET step == pipe.steps[pipe.i + 1] IN
    \/ step.args = JStr("$prev") /\ pipe.prev_output = None
    \/ /\ step.args = JStr("$a.x")
       /\ \/ "a" \notin DOMAIN pipe.step_results
          \/ pipe.step_results["a"].kind # "object"
          \/ "x" \notin DOMAIN pipe.step_results["a"].val

\* C24: when the condition of a step is met and its args hold a reference that
\* cannot be resolved, the step is recorded as failed with a resolution error,
\* its tool is not invoked, prev_output and step_results are unchanged, and the
\* run aborts as failed or goes on to the next step according to the step's
\* continue_on_error.
C24_DanglingReferenceFailsStep ==
    [][(/\ pipe.phase = "running"
        /\ pipe' # pipe
        /\ NextCondition.ok
        /\ NextCondition.val
        /\ DanglingReference)
       => /\ Len(pipe'.results) = Len(pipe.results) + 1
          /\ ~Pushed.success
          /\ Pushed.step_index = pipe.i
          /\ Pushed.output = JNull
          /\ Pushed.error # None
          /\ StartsWith(Pushed.error[1], "Failed to resolve arguments: ")
          /\ pipe'.invoked = pipe.invoked
          /\ pipe'.prev_output = pipe.prev_output
          /\ pipe'.step_results = pipe.step_results
          /\ IF pipe.steps[pipe.i + 1].continue_on_error
             THEN /\ pipe'.pipeline_success = pipe.pipeline_success
                  /\ pipe'.i = pipe.i + 1
                  /\ pipe'.i < Len(pipe.steps) => pipe'.phase = "running"
             ELSE /\ pipe'.phase = "returned"
                  /\ ~pipe'.pipeline_success
                  /\ pipe'.header = Some("Failed")]_vars

C24_Witness ==
    /\ pipe.phase = "returned"
    /\ Len(pipe.results) = 2
    /\ pipe.steps[1].name = Some("a")
    /\ pipe.results[1].output = Skipped
    /\ pipe.steps[2].args = JStr("$a.x")
    /\ pipe.steps[2].condition = None
    /\ pipe.results[2].error =
          Some("Failed to resolve arguments: Step 'a' not found or not yet executed")
    /\ pipe.invoked = <<>>

-----------------------------------------------------------------------------
(* Calls of the pipeline executor's functions on their own                  *)

\* one call, from the initial state, of a function that reads and writes no
\* state of the server
Call(fn, args, result) ==
    /\ eval.fn = "none"
    /\ eval' = [fn |-> fn, args |-> args, result |-> result]
    /\ UNCHANGED <<regVars, memVars, conc, script, pipe, hostVars>>

\* the values of test_resolve_args_with_nested_variables
TestInput == JObj([config |-> JObj([timeout |-> JNum(30)])])

TestStepResults ==
    [fetch |-> JObj([body |-> JObj([message |-> JStr("Hello")]), status |-> JNum(200)])]

TestPrev == JObj([count |-> JNum(5)])

\* leaves of argument values: plain values and references
ArgLeaves ==
    {JStr("unchanged"), JNum(30), JBool(TRUE), JNull,
     JStr("$input.config.timeout"), JStr("$fetch.body"), JStr("$prev"),
     JStr("$prev.count")}

\* argument values one level deep: an object and an array of leaves
ArgNested ==
    {JObj([data |-> a, static_value |-> b]) : a, b \in ArgLeaves}
    \cup {JArr(<<a, b>>) : a, b \in ArgLeaves}

\* argument values two and three levels deep: an array in an object, and an
\* object in an array in an object
ArgDeep ==
    {JObj([list |-> n, timeout |-> a]) : n \in ArgNested, a \in ArgLeaves}
    \cup {JObj([nested |-> JArr(<<JObj([val |-> a])>>), list |-> JArr(<<b, JStr("static")>>)]) :
            a, b \in ArgLeaves}

ArgSamples == ArgLeaves \cup ArgNested \cup ArgDeep

ResolveArgsCall ==
    \E args \in ArgSamples, prev_output \in {None, Some(TestPrev)} :
        Call("resolve_args",
             [args |-> args, prev_output |-> prev_output],
             ResolveArgs(args, TestInput, TestStepResults, prev_output))

\* the previous output of the condition tests, with members of further kinds
CondPrev ==
    JObj([status |-> JStr("success"), code |-> JNum(404), flag |-> JBool(FALSE),
          items |-> JArr(<<>>), body |-> JObj([message |-> JStr("Hello")])])

\* expressions of conditions: references and literals of every kind
ExprTexts ==
    {"$prev.status", "$prev.code", "$prev.flag", "$prev.items", "$prev.body",
     "true", "false", "null", "0", "200", "404", "-1", "0.0", "1.5", "404.0",
     "success", "\"success\"", "'success'", "\"\"", "hello world",
     "\"a==b\"", "\"a!=b\""}

\* the condition texts built from them
ConditionText(a, operator, b) ==
    IF operator = "" THEN a ELSE a \o " " \o operator \o " " \o b

EvaluateConditionCall ==
    \E a, b \in ExprTexts, operator \in {"", "==", "!="} :
        Call("evaluate_condition",
             [a |-> a, operator |-> operator, b |-> b],
             EvaluateCondition(ConditionText(a, operator, b), TestInput, <<>>, Some(CondPrev)))

-----------------------------------------------------------------------------
(* Properties of the pipeline executor's functions                          *)

\* what each reference of ArgLeaves refers to in the test's values: Some(value),
\* or None when there is no previous output to refer to
Referenced(reference, prev_output) ==
    CASE reference = "$input.config.timeout" -> Some(JNum(30))
      [] reference = "$fetch.body"           -> Some(JObj([message |-> JStr("Hello")]))
      [] reference = "$prev"                 -> prev_output
      [] reference = "$prev.count"           ->
            IF prev_output = None THEN None ELSE Some(prev_output[1].val.count)

\* `r` is `a` with every reference replaced and everything else kept
RECURSIVE Substituted(_, _, _)
Substituted(a, r, prev_output) ==
    CASE a.kind = "string" ->
            IF StartsWith(a.val, "$")
            THEN Some(r) = Referenced(a.val, prev_output)
            ELSE r = a
      [] a.kind \in {"object", "array"} ->
            /\ r.kind = a.kind
            /\ DOMAIN r.val = DOMAIN a.val
            /\ \A k \in DOMAIN a.val : Substituted(a.val[k], r.val[k], prev_output)
      [] OTHER -> r = a

\* C23: when resolve_args succeeds, its result is the argument value with every
\* string beginning with `$` replaced by the value it refers to, and every other
\* string, number, boolean and null unchanged, at every depth of objects and
\* arrays, with the same keys and the same array positions.
C23_ResolveArgsSubstitutes ==
    (eval.fn = "resolve_args" /\ eval.result.ok)
        => Substituted(eval.args.args, eval.result.val, eval.args.prev_output)

C23_Witness ==
    /\ eval.fn = "resolve_args"
    /\ eval.args.args =
          JObj([nested |-> JArr(<<JObj([val |-> JStr("$fetch.body")])>>),
                list   |-> JArr(<<JStr("$prev.count"), JStr("static")>>)])
    /\ eval.result =
          Ok(JObj([nested |-> JArr(<<JObj([val |-> JObj([message |-> JStr("Hello")])])>>),
                   list   |-> JArr(<<JNum(5), JStr("static")>>)]))

\* the value an expression resolves to on its own
Resolved(expr) == ResolveConditionValue(expr, TestInput, <<>>, Some(CondPrev))

\* truthiness as the condition grammar states it
StatedTruthy(value) ==
    \/ value = JBool(TRUE)
    \/ value.kind = "string" /\ value.val # ""
    \/ value.kind = "number" /\ value \notin {JNum(0), JFloat(0, 0)}
    \/ value.kind = "array" /\ Len(value.val) > 0
    \/ value.kind = "object" /\ DOMAIN value.val # {}

\* C25 (as stated): for expressions A and B that resolve without error, `A == B`
\* is true exactly when the resolved values are equal, `A != B` is its negation,
\* and a single expression is true exactly for true, a non-empty string, a
\* non-zero number, a non-empty array or a non-empty object.
C25_ConditionByValue ==
    (/\ eval.fn = "evaluate_condition"
     /\ Resolved(eval.args.a).ok
     /\ Resolved(eval.args.b).ok)
    => eval.result =
          Ok(CASE eval.args.operator = "==" ->
                    Resolved(eval.args.a).val = Resolved(eval.args.b).val
               [] eval.args.operator = "!=" ->
                    Resolved(eval.args.a).val # Resolved(eval.args.b).val
               [] OTHER -> StatedTruthy(Resolved(eval.args.a).val))

NextEval ==
    \/ ResolveArgsCall
    \/ EvaluateConditionCall

SpecEval == Init /\ [][NextEval]_vars

-----------------------------------------------------------------------------
(* Loading the tools directory (ToolRegistry::load_all_tools)               *)

\* the directories load_all_tools takes a record from: a manifest.json exists
\* and load_tool_from_dir returns Ok
LoadedDirs(d) ==
    {n \in DOMAIN d :
        /\ "manifest.json" \in DOMAIN d[n].files
        /\ LoadToolFromDir(n, d[n].files) # None}

\* load_all_tools: the map after tools.clear() and one insert per directory,
\* keyed by the manifest's name
LoadAllTools(d) ==
    LET config(n) == LoadToolFromDir(n, d[n].files)[1]
        names == {config(n).manifest.name : n \in LoadedDirs(d)}
    IN [m \in names |->
            config(CHOOSE n \in LoadedDirs(d) : config(n).manifest.name = m)]

\* ToolRegistry::reload
Reload ==
    /\ nOps' = nOps + 1
    /\ tools' = LoadAllTools(disk)
    /\ disk' = disk
    /\ lastOp' = Op("reload", "", TRUE, FALSE, FALSE, None, None, None)
    /\ UNCHANGED <<memVars, extVars>>

\* the tools directory changed from outside the server: manifest.json replaced
\* by text that is no manifest, or another file of the tool removed
DamageToolDir(name, fname) ==
    /\ name \in DOMAIN disk
    /\ fname \in DOMAIN disk[name].files
    /\ nOps' = nOps + 1
    /\ disk' = [disk EXCEPT ![name].files =
                   IF fname = "manifest.json"
                   THEN WriteFile(@, fname, BytesFile("{"))
                   ELSE Remove(@, fname)]
    /\ tools' = tools
    /\ lastOp' = Op("damage", name, TRUE, FALSE, TRUE, None, None, None)
    /\ UNCHANGED <<memVars, extVars>>

FileNames == {"manifest.json", "main.py", "a.wasm", "b.wasm"}

ReloadStep == nOps < MaxOps /\ Reload

DamageToolDirStep ==
    \E name \in Names, fname \in FileNames :
        nOps < MaxOps /\ DamageToolDir(name, fname)

NextLoad ==
    \/ RegisterToolStep
    \/ BuildToolStep
    \/ PipelineCreateStep
    \/ DamageToolDirStep
    \/ ReloadStep

SpecLoad == Init /\ [][NextLoad]_vars

-----------------------------------------------------------------------------
(* Properties of loading                                                    *)

\* manifest.json of the directory parses as a manifest
ManifestParses(dir) ==
    /\ "manifest.json" \in DOMAIN dir.files
    /\ dir.files["manifest.json"].kind = "manifest"

\* the payload the manifest of the directory names is there: the wasm module,
\* the entry file of a script; a pipeline has none
PayloadPresent(name, dir) ==
    LET manifest == dir.files["manifest.json"].manifest IN
    CASE manifest.tool_type = "wasm" -> (name \o ".wasm") \in DOMAIN dir.files
      [] manifest.tool_type = "script" -> manifest.entry_file[1] \in DOMAIN dir.files
      [] OTHER -> TRUE

\* C27 (as stated): load_all skips a directory whose manifest does not parse or
\* whose payload is missing, and loads every directory with a valid manifest and
\* its payload, whatever the other directories hold.
C27_LoadSkipsBrokenTools ==
    [][(nOps' = nOps + 1 /\ lastOp'.op = "reload")
       => \A n \in DOMAIN disk :
             IF ManifestParses(disk[n]) /\ PayloadPresent(n, disk[n])
             THEN /\ n \in DOMAIN tools'
                  /\ tools'[n].manifest = disk[n].files["manifest.json"].manifest
             ELSE n \notin DOMAIN tools']_vars

\* the part of C27 about manifests: a directory is loaded exactly when its
\* manifest parses
LoadFollowsManifest ==
    [][(nOps' = nOps + 1 /\ lastOp'.op = "reload")
       => \A n \in DOMAIN disk :
             IF ManifestParses(disk[n])
             THEN /\ n \in DOMAIN tools'
                  /\ tools'[n].manifest = disk[n].files["manifest.json"].manifest
             ELSE n \notin DOMAIN tools']_vars

-----------------------------------------------------------------------------
(* Registration under arbitrary names                                       *)

NameChars == "abcdefghijklmnopqrstuvwxyzABCDEFGHIJKLMNOPQRSTUVWXYZ0123456789_-"

\* is_valid_tool_name of the property tests, on ASCII names
IsValidToolName(name) ==
    /\ Len(name) > 0
    /\ Len(name) <= 64
    /\ \A i \in 1..Len(name) : Contains(NameChars, SubSeq(name, i, i))

\* names a client can send: a valid one, one with a dot, one that leaves the
\* tools directory, the empty name and one of 65 characters
NameSamples ==
    {"a", "a.b", "../x", "",
     "aaaaaaaaaaaaaaaaaaaaaaaaaaaaaaaaaaaaaaaaaaaaaaaaaaaaaaaaaaaaaaaaa"}

RegisterAnyNameStep ==
    \E name \in NameSamples, sub \in Submissions, ow \in BOOLEAN :
        nOps < MaxOps /\ RegisterScript(name, sub, Some("python3"), ow)

BuildAnyNameStep ==
    \E name \in NameSamples, sub \in Submissions :
        nOps < MaxOps /\ BuildTool(name, sub, Some(sub.code), FALSE)

NextNames ==
    \/ RegisterAnyNameStep
    \/ BuildAnyNameStep

SpecNames == Init /\ [][NextNames]_vars

\* C28 (as stated): register with a name that does not match
\* [A-Za-z0-9_-]{1,64} is refused, and neither a directory nor a file nor a
\* record is created for it.
C28_InvalidNameRejected ==
    [][(/\ nOps' = nOps + 1
        /\ lastOp'.op \in RegisterOps
        /\ ~IsValidToolName(lastOp'.name))
       => /\ ~lastOp'.ok
          /\ disk' = disk
          /\ tools' = tools]_vars

-----------------------------------------------------------------------------
(* Registration with a failing write                                        *)

\* the steps of register_script_tool that can return an error through `?`
WriteSteps == {"create_dir_all", "manifest", "script", "permissions"}

\* the files of the tool directory when register_script_tool returns at the
\* failing step: the writes before it have been made
FilesWhenFailed(files, manifest, code, failed) ==
    CASE failed = "manifest" -> files
      [] failed = "script" ->
            WriteFile(files, "manifest.json", ManifestFile(ScriptManifest(manifest)))
      [] failed = "permissions" -> RegisterScriptFiles(files, manifest, code)

\* register_tool(manifest, code) for a script manifest when step `failed`
\* returns an error: the function returns before the in-memory insert
RegisterToolFailing(manifest, code, failed) ==
    /\ nOps' = nOps + 1
    /\ tools' = tools
    /\ disk' = IF failed = "create_dir_all"
               THEN disk
               ELSE LET dir == CreateDirAll(disk, manifest.name) IN
                    (manifest.name :>
                        [dir EXCEPT !.files =
                            FilesWhenFailed(dir.files, manifest, code, failed)])
                    @@ disk
    /\ lastOp' = Op("register_tool", manifest.name, FALSE, TRUE,
                    GetTool(manifest.name) # None, Some(manifest), Some(code), None)
    /\ UNCHANGED <<memVars, extVars>>

RegisterToolFailingStep ==
    \E m \in EntryManifests, sub \in Submissions, failed \in WriteSteps :
        nOps < MaxOps /\ m.description = sub.description
                      /\ RegisterToolFailing(m, sub.code, failed)

NextFail ==
    \/ RegisterToolStep
    \/ RegisterToolFailingStep

SpecFail == Init /\ [][NextFail]_vars

\* C29 (as stated): when a write step of register fails, the record of the name
\* and the files of its directory are the same as before the call, and for a
\* name that had no directory no file is left in one.
C29_FailedRegisterLeavesPriorState ==
    [][(nOps' = nOps + 1 /\ lastOp'.op = "register_tool" /\ ~lastOp'.ok)
       => LET n == lastOp'.name IN
          /\ tools' = tools
          /\ IF n \in DOMAIN disk
             THEN disk'[n].files = disk[n].files
             ELSE n \in DOMAIN disk' => disk'[n].files = <<>>]_vars

-----------------------------------------------------------------------------
(* The environment a script receives                                        *)

\* "Safe environment variables to pass"
SafeEnvVars == {"HOME", "USER", "LANG", "PATH", "TERM"}

\* host environments: each variable unset (None) or set to one of its values
HostEnvs ==
    [HOME         : {None, Some("/home/u"), Some("/root")},
     SKILLZ_ROOTS : {None, Some("/r: /s")},
     SKILLZ_KEY   : {None, Some("k1"), Some("k2")},
     TOOLS_DIR    : {None, Some("/t")},
     SECRET       : {None, Some("s1"), Some("s2")}]

\* std::env::var(key): Some(value) when the variable is set
EnvVar(host, key) == IF key \in DOMAIN host THEN host[key] ELSE None

\* std::env::current_dir()
Cwd == "/cwd"

NonEmpty(s) == s # ""

\* ExecutionContext::default() in a process whose environment is `host`
ExecutionContextDefault(host) ==
    LET home      == IF EnvVar(host, "HOME") # None THEN EnvVar(host, "HOME")[1] ELSE "."
        tools_dir == IF EnvVar(host, "TOOLS_DIR") # None
                     THEN EnvVar(host, "TOOLS_DIR")[1]
                     ELSE home \o "/tools"
        roots_str == EnvVar(host, "SKILLZ_ROOTS")
        parts     == Split(roots_str[1], ":")
        roots     == IF roots_str # None /\ roots_str[1] # ""
                     THEN SelectSeq([i \in DOMAIN parts |-> Trim(parts[i])], NonEmpty)
                     ELSE <<Cwd>>
        set       == {key \in SafeEnvVars : EnvVar(host, key) # None}
    IN [roots             |-> roots,
        working_directory |-> Cwd,
        tool_name         |-> "",
        environment       |-> [key \in set |-> EnvVar(host, key)[1]],
        tools_dir         |-> tools_dir,
        capabilities      |-> ClientCapabilities(FALSE, FALSE)]

\* the environment of the subprocess: Command::new(..).spawn() without
\* env_clear hands the server's own environment to the child
SpawnEnvironment(host) ==
    [key \in {k \in DOMAIN host : host[k] # None} |-> host[key][1]]

\* what a script receives from a server started in `host`
Received(host) ==
    [context     |-> ExecutionContextDefault(host),
     process_env |-> SpawnEnvironment(host)]

ReceivedCall ==
    \E h1, h2 \in HostEnvs :
        Call("received", <<h1, h2>>, <<Received(h1), Received(h2)>>)

NextEnv ==
    \/ ReceivedCall

SpecEnv == Init /\ [][NextEnv]_vars

\* the names the execution context may expose
Exposed(name) == name \in SafeEnvVars \/ StartsWith(name, "SKILLZ_")

\* C30 (as stated): the environment of the execution context holds exactly the
\* host's variables named HOME, USER, LANG, PATH, TERM or SKILLZ_*, and two hosts
\* that agree on those variables hand the same things to the script.
C30_OnlyListedVariablesReachScript ==
    eval.fn = "received" =>
        LET h1 == eval.args[1]
            h2 == eval.args[2]
        IN
        /\ DOMAIN eval.result[1].context.environment
              = {k \in DOMAIN h1 : Exposed(k) /\ h1[k] # None}
        /\ \A k \in DOMAIN eval.result[1].context.environment :
              eval.result[1].context.environment[k] = h1[k][1]
        /\ (\A k \in DOMAIN h1 : Exposed(k) => h1[k] = h2[k])
              => eval.result[1] = eval.result[2]

\* the part of C30 that holds for the context's environment map: it holds no
\* variable other than the five named ones, with the host's values
ContextEnvironmentIsSafe ==
    eval.fn = "received" =>
        /\ DOMAIN eval.result[1].context.environment \subseteq SafeEnvVars
        /\ \A k \in DOMAIN eval.result[1].context.environment :
              eval.result[1].context.environment[k] = eval.args[1][k][1]

-----------------------------------------------------------------------------
(* Pipelines run by the server over its own registry (AppState::call_tool, *)
(* ToolRuntime::call_tool, ToolRuntime::call_tool_by_name)                  *)

\* ScriptResult (without progress)
ScriptResult(output, logs) == [output |-> output, logs |-> logs]

LogEntry == [level |-> "info", message |-> "m", data |-> None]

\* what call_wasm_tool can hand back to call_tool
WasmOutcomes == {Ok(JStr("w")), Err("wasm failed")}

\* what call_script_tool can hand back to call_tool
ScriptOutcomes ==
    {Ok(ScriptResult(JStr("r"), <<>>)),
     Ok(ScriptResult(JStr("r"), <<LogEntry>>)),
     Err("script failed")}

\* "Format output with logs if present"
FormatOutput(result) ==
    IF ~result.ok THEN result
    ELSE IF result.val.logs = <<>> THEN Ok(result.val.output)
    ELSE Ok(JObj([result |-> result.val.output, logs |-> JArr(result.val.logs)]))

\* ToolRuntime::call_tool(config, args): the match on config.tool_type(), as the
\* set of the outcomes the call can have
CallTool(config) ==
    CASE config.manifest.tool_type = "wasm" -> WasmOutcomes
      [] config.manifest.tool_type = "script" ->
            {FormatOutput(result) : result \in ScriptOutcomes}
      [] config.manifest.tool_type = "pipeline" ->
            {Err("Pipeline tools must be executed via call_pipeline")}

\* a variant of the lookup that hands null back for a tool the registry lacks
CallMissingAsNull(tool_name) ==
    IF GetTool(tool_name) = None
    THEN {Ok(JNull)}
    ELSE CallTool(GetTool(tool_name)[1])

\* ToolRuntime::call_tool_by_name(tool_name, args, registry): every outcome of it
CallRegisteredTool(tool_name) ==
    IF GetTool(tool_name) = None
    THEN {Err("Tool '" \o tool_name \o "' not found")}
    ELSE CallTool(GetTool(tool_name)[1])

\* call_tool(tool_name) of the server for a pipeline tool: execute_pipeline is entered
\* with the steps of the record the registry holds now
CallPipelineTool(tool_name) ==
    /\ pipe.phase # "running"
    /\ GetTool(tool_name) # None
    /\ GetTool(tool_name)[1].manifest.tool_type = "pipeline"
    /\ LET steps   == GetTool(tool_name)[1].manifest.pipeline_steps
           started == [PipeInit EXCEPT !.phase = "running", !.steps = steps]
       IN  pipe' = IF Len(steps) = 0 THEN FormatResult(started) ELSE started
    /\ UNCHANGED <<regVars, memVars, conc, script, eval, hostVars>>

\* the iteration of a run made by the server: the step's tool is looked up in the
\* registry as it is when the step is reached
ServeIteration == IterationCalling(CallRegisteredTool)

\* the steps submitted to pipeline(action: "create")
ServeStep(tool, continue_on_error) ==
    [name |-> None, tool |-> tool, args |-> JNull,
     continue_on_error |-> continue_on_error, condition |-> None]

ServePipelines ==
    {<<>>}
    \cup {<<ServeStep(t, c)>> : t \in Names, c \in BOOLEAN}
    \cup {<<ServeStep(t, c), ServeStep(u, FALSE)>> :
             t \in Names, u \in Names, c \in BOOLEAN}

ServeRegisterScriptStep ==
    \E name \in Names :
        nOps < MaxOps
        /\ RegisterScript(name, [description |-> "d1", code |-> "P1"],
                          Some("python3"), FALSE)

ServeBuildToolStep ==
    \E name \in Names :
        nOps < MaxOps
        /\ BuildTool(name, [description |-> "d1", code |-> "P1"], Some("P1"), FALSE)

ServePipelineCreateStep ==
    \E name \in Names, steps \in ServePipelines :
        nOps < MaxOps /\ PipelineCreate(name, "d1", steps)

CallPipelineToolStep == \E name \in Names : CallPipelineTool(name)

NextServe ==
    \/ ServeRegisterScriptStep
    \/ ServeBuildToolStep
    \/ ServePipelineCreateStep
    \/ DeleteToolStep
    \/ CallPipelineToolStep
    \/ ServeIteration

SpecServe == Init /\ [][NextServe]_vars

\* the record of a pipeline tool whose run takes no step and so completes
EmptyPipeline(name) ==
    /\ GetTool(name) # None
    /\ GetTool(name)[1].manifest.tool_type = "pipeline"
    /\ GetTool(name)[1].manifest.pipeline_steps = <<>>

\* C31: the facade executes a tool of every tool_type: a pipeline step whose target
\* is a registered pipeline tool runs that pipeline and yields its result.  Stated
\* for the target whose run cannot fail, a pipeline without steps: the step that
\* calls it is recorded as succeeded.
C31_PipelineStepRunsPipeline ==
    [][(StepTaken /\ EmptyPipeline(pipe.steps[pipe.i + 1].tool))
          => Pushed.success]_vars

\* the step just taken was a delete_tool(name) for a name the registry held
DeletedRegistered ==
    /\ nOps' = nOps + 1
    /\ lastOp'.op = "delete_tool"
    /\ lastOp'.name \in DOMAIN tools

\* the pipelines of the registry that have a step calling the tool `name`
Referencing(name) ==
    {p \in DOMAIN tools :
        /\ tools[p].manifest.tool_type = "pipeline"
        /\ \E i \in 1..Len(tools[p].manifest.pipeline_steps) :
              tools[p].manifest.pipeline_steps[i].tool = name}

\* the step the run is at calls a tool the registry does not hold
CallsMissingTool ==
    /\ StepTaken
    /\ GetTool(pipe.steps[pipe.i + 1].tool) = None

\* C39: delete_tool succeeds for a tool that a registered pipeline references and
\* leaves every other record, the pipeline's included, as it was; a step of a run
\* that then calls the missing tool is recorded as failed with
\* "Tool '<name>' not found", and the run ends there as Failed unless the step has
\* continue_on_error, in which case it goes on with the next step.
C39_DeleteLeavesDanglingPipeline ==
    /\ [][DeletedRegistered =>
             /\ lastOp'.ok
             /\ lastOp'.name \notin DOMAIN tools'
             /\ \A p \in DOMAIN tools \ {lastOp'.name} :
                   p \in DOMAIN tools' /\ tools'[p] = tools[p]]_vars
    /\ [][CallsMissingTool =>
             LET step == pipe.steps[pipe.i + 1] IN
             /\ ~Pushed.success
             /\ Pushed.error = Some("Tool '" \o step.tool \o "' not found")
             /\ pipe'.i = pipe.i + 1
             /\ IF step.continue_on_error
                THEN /\ pipe'.pipeline_success = pipe.pipeline_success
                     /\ pipe'.phase = IF pipe'.i = Len(pipe.steps)
                                      THEN "returned" ELSE "running"
                ELSE /\ pipe'.phase = "returned"
                     /\ pipe'.header = Some("Failed")]_vars

\* a tool was deleted while a pipeline that is still registered calls it twice; the
\* run of that pipeline recorded the first call as not found, went on, and recorded
\* the second
C39_Witness ==
    /\ lastOp.op = "delete_tool" /\ lastOp.ok
    /\ \E p \in DOMAIN tools : tools[p].manifest.pipeline_steps = pipe.steps
    /\ pipe.phase = "returned"
    /\ Len(pipe.results) = 2
    /\ pipe.steps[1].tool = lastOp.name
    /\ pipe.results[1].error = Some("Tool '" \o lastOp.name \o "' not found")
    /\ pipe.results[2].error = Some("Tool '" \o lastOp.name \o "' not found")

-----------------------------------------------------------------------------
(* A pipeline step that calls a script tool: call_script_tool, then the     *)
(* formatting of call_tool, then the binding made by execute_pipeline       *)

\* the step of the pipeline [{name: "a", tool: <the script tool>}]
ScriptStep ==
    [name |-> Some("a"), tool |-> "echo", args |-> JNull,
     continue_on_error |-> FALSE, condition |-> None]

\* the iteration of execute_pipeline for that step, from the return of
\* call_script_tool on: call_tool formats the ScriptResult, call_tool_by_name hands
\* it on, and the loop binds it
BindScriptOutput ==
    /\ script.phase = "done"
    /\ pipe.phase = "idle"
    /\ LET started == [PipeInit EXCEPT !.phase = "running", !.steps = <<ScriptStep>>]
           result  == FormatOutput(Ok(ScriptResult(Returned.output, Returned.logs)))
       IN  pipe' = AfterCall(started, ScriptStep, result)
    /\ UNCHANGED <<regVars, memVars, conc, script, eval, hostVars>>

NextBind ==
    \/ NextRun
    \/ BindScriptOutput

SpecBind == Init /\ [][NextBind]_vars

\* the script wrote one final response, which carries a result that is not null,
\* and apart from it nothing but log notifications: line i is that response
OnlyFinalResult(i) ==
    /\ IsFinalResponse(script.emitted[i])
    /\ script.emitted[i].error = None
    /\ script.emitted[i].result # Some(JNull)
    /\ \A j \in DOMAIN script.emitted \ {i} : script.emitted[j] = LineLog

\* C38: the output a pipeline binds for a script step, as `$prev` and as
\* `$<step_name>`, is the `result` of the script's final response, whether or not
\* the script also sent log notifications or wrote to stderr.
C38_BoundOutputIsFinalResult ==
    pipe.phase = "returned" =>
        \A i \in DOMAIN script.emitted :
            OnlyFinalResult(i) =>
                /\ pipe.prev_output = Some(script.emitted[i].result[1])
                /\ pipe.step_results = [a |-> script.emitted[i].result[1]]

\* what does hold: the binding is the final result when the script neither logged
\* nor wrote to stderr
BoundOutputIsFinalResultWithoutLogs ==
    pipe.phase = "returned" =>
        \A i \in DOMAIN script.emitted :
            (OnlyFinalResult(i) /\ Returned.logs = <<>>) =>
                /\ pipe.prev_output = Some(script.emitted[i].result[1])
                /\ pipe.step_results = [a |-> script.emitted[i].result[1]]

-----------------------------------------------------------------------------
(* Hot reload: manifests edited in the tools directory, reload_tool, reload *)

\* the manifests an editor leaves in a tool directory: another description, or
\* another name
Edited(manifest) ==
    {[manifest EXCEPT !.description = "d3"], [manifest EXCEPT !.name = "c"]}

\* the tools directory changed from outside the server: manifest.json of the
\* directory `dir` is rewritten
EditManifest(dir, manifest) ==
    /\ nOps' = nOps + 1
    /\ disk' = [disk EXCEPT ![dir].files =
                   WriteFile(@, "manifest.json", ManifestFile(manifest))]
    /\ tools' = tools
    /\ lastOp' = Op("edit", dir, TRUE, FALSE, TRUE, Some(manifest), None, None)
    /\ UNCHANGED <<memVars, extVars>>

\* reload_tool(name), as the hot-reload loop calls it on ToolModified(name) and
\* ToolAdded(name): Err when the directory is missing or load_tool_from_dir fails;
\* the ToolConfig that load_tool_from_dir returns is dropped
ReloadTool(name) ==
    /\ nOps' = nOps + 1
    /\ UNCHANGED <<tools, disk>>
    /\ lastOp' = Op("reload_tool", name,
                    name \in DOMAIN disk
                        /\ LoadToolFromDir(name, disk[name].files) # None,
                    FALSE, GetTool(name) # None, None, None, None)
    /\ UNCHANGED <<memVars, extVars>>

EditManifestStep ==
    \E dir \in Names :
        /\ nOps < MaxOps
        /\ dir \in DOMAIN disk
        /\ ManifestParses(disk[dir])
        /\ \E manifest \in Edited(disk[dir].files["manifest.json"].manifest) :
              EditManifest(dir, manifest)

ReloadToolStep == \E name \in Names : nOps < MaxOps /\ ReloadTool(name)

HotDeleteToolStep ==
    \E name \in Names \cup {"c"} : nOps < MaxVerOps /\ DeleteTool(name)

NextHot ==
    \/ RegisterToolStep
    \/ EditManifestStep
    \/ ReloadToolStep
    \/ ReloadStep
    \/ HotDeleteToolStep

SpecHot == Init /\ [][NextHot]_vars

\* C32: after a tool's manifest.json was changed on disk, a reload_tool(name) that
\* succeeds leaves get(name) returning a record built from the manifest now on disk.
C32_ReloadToolReadsDisk ==
    [][(/\ nOps' = nOps + 1
        /\ lastOp'.op = "reload_tool"
        /\ lastOp'.ok
        /\ disk[lastOp'.name].files["manifest.json"].manifest.name = lastOp'.name)
       => /\ lastOp'.name \in DOMAIN tools'
          /\ tools'[lastOp'.name].manifest =
                disk[lastOp'.name].files["manifest.json"].manifest]_vars

\* C33: each record the registry holds has a manifest whose name is the name of the
\* directory it was loaded from, and is held under that name, so that
\* delete_tool(name) removes that directory.
C33_RecordNameIsDirectoryName ==
    \A n \in DOMAIN tools :
        /\ tools[n].manifest.name = n
        /\ tools[n].tool_dir = tools[n].manifest.name

\* the consequence C33 draws: after delete_tool(name) returned true, the directory
\* the record was loaded from is gone
DeleteRemovesLoadedDirectory ==
    [][(nOps' = nOps + 1 /\ lastOp'.op = "delete_tool" /\ lastOp'.ok)
       => tools[lastOp'.name].tool_dir \notin DOMAIN disk']_vars

-----------------------------------------------------------------------------
(* Opening the memory store (Memory::new, Memory::migrate)                  *)

MaxOpens == 3

\* SELECT COALESCE(MAX(version), 0) FROM _migrations
CurrentVersion(d) ==
    IF d.migrations = {} THEN 0
    ELSE CHOOSE v \in d.migrations : \A w \in d.migrations : w <= v

\* INSERT INTO _migrations (version) VALUES (v): version is the primary key
RecordMigration(d, v) ==
    IF v \in d.migrations
    THEN [d EXCEPT !.failed = TRUE]
    ELSE [d EXCEPT !.migrations = @ \cup {v}, !.applied = Append(@, v)]

\* migrate_v1: CREATE TABLE IF NOT EXISTS memories, its indexes, then the record
MigrateV1(d) == RecordMigration([d EXCEPT !.memories = TRUE], 1)

\* migrate_v2: ALTER TABLE memories ADD COLUMN expires_at fails when the table is
\* missing or has the column already; then the index and the record
MigrateV2(d) ==
    IF ~d.memories \/ d.expires_at
    THEN [d EXCEPT !.failed = TRUE]
    ELSE RecordMigration([d EXCEPT !.expires_at = TRUE], 2)

\* a variant of the second test of migrate() that applies v2 on every open
NeedsV2Always(current_version) == TRUE

\* `if current_version < 2`
NeedsV2(current_version) == current_version < 2

\* migrate(): each `?` returns at the first statement that fails, and what the
\* statements before it did stays done
Migrate(d) ==
    LET current_version == CurrentVersion(d)
        d1 == IF current_version < 1 THEN MigrateV1(d) ELSE d
    IN  IF d1.failed THEN d1
        ELSE IF NeedsV2(current_version) THEN MigrateV2(d1) ELSE d1

\* Memory::new(tools_dir): the database is opened (created when it is not there) and
\* migrate() runs; a store is returned when it succeeded
MemoryNew ==
    /\ db.opens < MaxOpens
    /\ LET migrated == Migrate([db EXCEPT !.failed = FALSE]) IN
       db' = [migrated EXCEPT !.open = ~migrated.failed,
                              !.opens = @ + 1,
                              !.found = Cardinality(DOMAIN mem)]
    /\ UNCHANGED <<regVars, memVars, conc, script, pipe, eval, io, client, reqs, storedAt>>

\* the server process ends: its store is gone, the database file stays
Shutdown ==
    /\ db.open
    /\ db' = [db EXCEPT !.open = FALSE]
    /\ UNCHANGED <<regVars, memVars, conc, script, pipe, eval, io, client, reqs, storedAt>>

\* set(tool, key, value) on a store that Memory::new returned
StoreSetStep ==
    /\ db.open
    /\ \E c \in MemCells, value \in MemValues : SetWithTtl(c[1], c[2], value, None)

NextOpen ==
    \/ MemoryNew
    \/ Shutdown
    \/ StoreSetStep

SpecOpen == Init /\ [][NextOpen]_vars

\* the number of times the migration v ran to its end
TimesApplied(d, v) == Cardinality({i \in DOMAIN d.applied : d.applied[i] = v})

\* the step is a call of Memory::new
Opened == db'.opens = db.opens + 1

\* C34: however often the memory store is opened on the same database, each
\* migration is applied exactly once: no migration runs twice, and a store that was
\* returned has both applied; the recorded version never decreases; a reopen of an
\* up-to-date database applies nothing and does not fail; and what get returned
\* before the reopen it returns after it.
C34_MigrationsAppliedOnce ==
    /\ [](\A v \in {1, 2} :
             /\ TimesApplied(db, v) <= 1
             /\ db.open => (TimesApplied(db, v) = 1 /\ v \in db.migrations))
    /\ [][CurrentVersion(db') >= CurrentVersion(db)]_vars
    /\ [][(Opened /\ CurrentVersion(db) = 2)
             => /\ db'.applied = db.applied
                /\ db'.migrations = db.migrations
                /\ ~db'.failed
                /\ db'.open]_vars
    /\ [][Opened =>
             \A c \in MemCells :
                 Get(mem', now', c[1], c[2]) = Get(mem, now, c[1], c[2])]_vars

\* the store was opened a third time, on a database that holds two rows written
\* through an earlier store, and both migrations are recorded once
C34_Witness ==
    /\ db.opens = 3
    /\ db.open
    /\ db.found = 2
    /\ db.applied = <<1, 2>>
    /\ Get(mem, now, "tool_a", "alpha") # None

-----------------------------------------------------------------------------
(* The pipes of a script's subprocess (call_script_tool): stdout is read to *)
(* its end, then child.wait(), then stderr is read                          *)

\* the blocks a pipe holds before a write to it blocks (64 KiB on Linux, taken as
\* the unit of what the subprocess writes)
PipeCapacity == 2

\* the subprocess writes at most one block more than the stderr pipe holds
MaxStderr == PipeCapacity + 1

\* cmd.stdin(piped).stdout(piped).stderr(piped).spawn(), the request written, and
\* the stdout loop entered
SpawnScript ==
    /\ io.exec = "idle"
    /\ io' = [io EXCEPT !.exec = "reading stdout", !.stdout_open = TRUE]
    /\ UNCHANGED <<regVars, memVars, conc, script, pipe, eval, db, client, reqs, storedAt>>

\* the subprocess enters a write to stdout or to stderr
ScriptBeginsWrite(stream) ==
    /\ io.exec \notin {"idle", "returned"}
    /\ ~io.exited
    /\ io.pending = "none"
    /\ IF stream = "stdout"
       THEN io.stdout_open /\ io.out_written < MaxLines
       ELSE io.err_written < MaxStderr
    /\ io' = [io EXCEPT !.pending = stream]
    /\ UNCHANGED <<regVars, memVars, conc, script, pipe, eval, db, client, reqs, storedAt>>

\* the write returns once the pipe has room for it
ScriptEndsWrite ==
    /\ io.pending # "none"
    /\ IF io.pending = "stdout"
       THEN /\ io.out_buf < PipeCapacity
            /\ io' = [io EXCEPT !.pending = "none", !.out_buf = @ + 1,
                                !.out_written = @ + 1]
       ELSE /\ io.err_buf < PipeCapacity
            /\ io' = [io EXCEPT !.pending = "none", !.err_buf = @ + 1,
                                !.err_written = @ + 1]
    /\ UNCHANGED <<regVars, memVars, conc, script, pipe, eval, db, client, reqs, storedAt>>

\* the subprocess closes its stdout and goes on running
ScriptClosesStdout ==
    /\ io.stdout_open
    /\ io.pending = "none"
    /\ io' = [io EXCEPT !.stdout_open = FALSE]
    /\ UNCHANGED <<regVars, memVars, conc, script, pipe, eval, db, client, reqs, storedAt>>

\* the subprocess exits: its ends of the pipes are closed
ProcessExits ==
    /\ io.exec \notin {"idle", "returned"}
    /\ ~io.exited
    /\ io.pending = "none"
    /\ io' = [io EXCEPT !.exited = TRUE, !.stdout_open = FALSE]
    /\ UNCHANGED <<regVars, memVars, conc, script, pipe, eval, db, client, reqs, storedAt>>

\* `for line in reader.lines()`: one line is taken from the stdout pipe
ReadsStdoutLine ==
    /\ io.exec = "reading stdout"
    /\ io.out_buf > 0
    /\ io' = [io EXCEPT !.out_buf = @ - 1]
    /\ UNCHANGED <<regVars, memVars, conc, script, pipe, eval, db, client, reqs, storedAt>>

\* the loop ends at the end of stdout, and child.wait() is entered
StdoutEnds ==
    /\ io.exec = "reading stdout"
    /\ io.out_buf = 0
    /\ ~io.stdout_open
    /\ io' = [io EXCEPT !.exec = "waiting"]
    /\ UNCHANGED <<regVars, memVars, conc, script, pipe, eval, db, client, reqs, storedAt>>

\* child.wait() returns once the subprocess exited
WaitReturns ==
    /\ io.exec = "waiting"
    /\ io.exited
    /\ io' = [io EXCEPT !.exec = "reading stderr"]
    /\ UNCHANGED <<regVars, memVars, conc, script, pipe, eval, db, client, reqs, storedAt>>

\* stderr.read_to_string(): everything in the stderr pipe, up to its end
ReadsStderr ==
    /\ io.exec = "reading stderr"
    /\ io' = [io EXCEPT !.exec = "returned", !.stderr_read = io.err_buf,
                        !.err_buf = 0]
    /\ UNCHANGED <<regVars, memVars, conc, script, pipe, eval, db, client, reqs, storedAt>>

ScriptBeginsWriteStep == \E stream \in {"stdout", "stderr"} : ScriptBeginsWrite(stream)

NextIo ==
    \/ SpawnScript
    \/ ScriptBeginsWriteStep
    \/ ScriptEndsWrite
    \/ ScriptClosesStdout
    \/ ProcessExits
    \/ ReadsStdoutLine
    \/ StdoutEnds
    \/ WaitReturns
    \/ ReadsStderr

SpecIo == Init /\ [][NextIo]_vars

\* the subprocess is in a write to stderr and the pipe is full
BlockedOnStderr == io.pending = "stderr" /\ io.err_buf = PipeCapacity

\* the executor is in the read of a stdout line that is not there, or in wait()
ExecutorBlocked ==
    \/ io.exec = "reading stdout" /\ io.out_buf = 0 /\ io.stdout_open
    \/ io.exec = "waiting" /\ ~io.exited

\* C35: stderr is drained while stdout is read, so the subprocess is never left
\* blocked in a write to a full stderr pipe while the executor is blocked in its read
\* of stdout (or in the wait that follows it), and the invocation completes for any
\* amount of stderr.
C35_StderrDrainedConcurrently == ~(BlockedOnStderr /\ ExecutorBlocked)

\* what does hold: an invocation that returned read all that the subprocess wrote
\* to stderr
ReturnedWithAllOfStderr == io.exec = "returned" => io.stderr_read = io.err_written

-----------------------------------------------------------------------------
(* The restart policy of a child connection (McpClient::connect)            *)

MAX_RESTARTS == 3
\* Duration::from_secs(300)
RESTART_RESET_WINDOW == 300

MaxAttempts == 5
MaxClock == 600

\* connect(), as start() and request() call it: the restart policy, then the spawn
Connect ==
    /\ client.attempts < MaxAttempts
    /\ LET count == IF client.last_restart # None
                       /\ client.clock - client.last_restart[1] > RESTART_RESET_WINDOW
                    THEN 0
                    ELSE client.restart_count
       IN  IF count >= MAX_RESTARTS
           THEN client' = [client EXCEPT !.restart_count = count,
                                         !.refused = TRUE,
                                         !.attempts = @ + 1]
           ELSE client' = [client EXCEPT !.restart_count = count + 1,
                                         !.last_restart = Some(client.clock),
                                         !.child = TRUE,
                                         !.connects = Append(@, client.clock),
                                         !.refused = FALSE,
                                         !.attempts = @ + 1]
    /\ UNCHANGED <<regVars, memVars, conc, script, pipe, eval, db, io, reqs, storedAt>>

\* the child process ends
ChildExits ==
    /\ client.child
    /\ client' = [client EXCEPT !.child = FALSE]
    /\ UNCHANGED <<regVars, memVars, conc, script, pipe, eval, db, io, reqs, storedAt>>

\* time passes
ClockAdvances(seconds) ==
    /\ client.clock + seconds <= MaxClock
    /\ client' = [client EXCEPT !.clock = @ + seconds]
    /\ UNCHANGED <<regVars, memVars, conc, script, pipe, eval, db, io, reqs, storedAt>>

\* the clock is observed every half window
ClockAdvancesStep == ClockAdvances(RESTART_RESET_WINDOW \div 2)

NextClient ==
    \/ Connect
    \/ ChildExits
    \/ ClockAdvancesStep

SpecClient == Init /\ [][NextClient]_vars

\* the restarts made in the RESTART_RESET_WINDOW seconds that end at time t: the
\* connects but the first
RestartsInWindow(c, t) ==
    {i \in 2..Len(c.connects) :
        c.connects[i] > t - RESTART_RESET_WINDOW /\ c.connects[i] <= t}

\* the step is a call of connect()
Attempted == client'.attempts = client.attempts + 1

AtMostMaxStartsPerWindow ==
    \A i \in DOMAIN client.connects :
        Cardinality({j \in DOMAIN client.connects :
                        /\ client.connects[j] > client.connects[i] - RESTART_RESET_WINDOW
                        /\ client.connects[j] <= client.connects[i]}) <= MAX_RESTARTS

-----------------------------------------------------------------------------
(* Concurrent registrations.  The handlers register_script and build_tool  *)
(* take no lock of their own: a request is a sequence of steps, the test   *)
(* of existence, then each write of the registry's register_* function,    *)
(* and the steps of two requests interleave.                               *)

ReqName(r) == reqs[r].manifest[1].name

\* the manifest register_* writes and returns for the request
StoredManifest(r) ==
    IF reqs[r].kind = "register_script"
    THEN ScriptManifest(reqs[r].manifest[1])
    ELSE reqs[r].manifest[1]

PayloadFile(r) ==
    IF reqs[r].kind = "register_script"
    THEN ScriptFilename(reqs[r].manifest[1])
    ELSE ReqName(r) \o ".wasm"

At(r, pc) == reqs' = [reqs EXCEPT ![r].pc = pc]

WriteToolFile(r, fname, content) ==
    disk' = [disk EXCEPT ![ReqName(r)].files = WriteFile(@, fname, content)]

raceFrame == <<lastOp, nOps, memVars, conc, script, pipe, eval, db, io, client, storedAt>>

ReceiveRegisterScript(r, name, sub, interpreter) ==
    /\ reqs[r].pc = "idle"
    /\ reqs' = [reqs EXCEPT ![r] =
                   [pc       |-> "check",
                    kind     |-> "register_script",
                    manifest |-> Some([ToolManifestNew(name, sub.description, "script")
                                         EXCEPT !.interpreter = interpreter]),
                    code     |-> sub.code,
                    ok       |-> FALSE]]
    /\ UNCHANGED <<tools, disk, raceFrame>>

ReceiveBuildTool(r, name, sub) ==
    /\ reqs[r].pc = "idle"
    /\ reqs' = [reqs EXCEPT ![r] =
                   [pc       |-> "check",
                    kind     |-> "build_tool",
                    manifest |-> Some(ToolManifestNew(name, sub.description, "wasm")),
                    code     |-> sub.code,
                    ok       |-> FALSE]]
    /\ UNCHANGED <<tools, disk, raceFrame>>

\* "Check if tool exists", with overwrite not set
CheckExists(r) ==
    /\ reqs[r].pc = "check"
    /\ IF AlreadyExists(ReqName(r), FALSE)
       THEN At(r, "done")
       ELSE At(r, IF reqs[r].kind = "build_tool" THEN "compile" ELSE "create_dir")
    /\ UNCHANGED <<tools, disk, raceFrame>>

\* Builder::compile_tool_with_deps in a temporary directory of its own
Compile(r) ==
    /\ reqs[r].pc = "compile"
    /\ \E compiled \in BOOLEAN : At(r, IF compiled THEN "create_dir" ELSE "done")
    /\ UNCHANGED <<tools, disk, raceFrame>>

\* fs::create_dir_all(&tool_dir)
MakeToolDir(r) ==
    /\ reqs[r].pc = "create_dir"
    /\ disk' = (ReqName(r) :> CreateDirAll(disk, ReqName(r))) @@ disk
    /\ At(r, "manifest")
    /\ UNCHANGED <<tools, raceFrame>>

\* fs::write(tool_dir.join("manifest.json"), manifest_json)
WriteManifest(r) ==
    /\ reqs[r].pc = "manifest"
    /\ WriteToolFile(r, "manifest.json", ManifestFile(StoredManifest(r)))
    /\ At(r, "payload")
    /\ UNCHANGED <<tools, raceFrame>>

\* fs::write(&script_path, code), fs::write(&wasm_path, wasm_bytes)
WritePayload(r) ==
    /\ reqs[r].pc = "payload"
    /\ WriteToolFile(r, PayloadFile(r), BytesFile(reqs[r].code))
    /\ At(r, IF reqs[r].kind = "build_tool" THEN "source" ELSE "insert")
    /\ UNCHANGED <<tools, raceFrame>>

\* fs::write(tool_dir.join("src.rs"), source_code)
WriteSource(r) ==
    /\ reqs[r].pc = "source"
    /\ WriteToolFile(r, "src.rs", BytesFile(SourceCode))
    /\ At(r, "insert")
    /\ UNCHANGED <<tools, raceFrame>>

\* "Update in-memory cache" under the write lock; the handler then reports success
InsertRecord(r) ==
    /\ reqs[r].pc = "insert"
    /\ tools' = (ReqName(r) :>
                    IF reqs[r].kind = "register_script"
                    THEN RegisterScriptConfig(reqs[r].manifest[1])
                    ELSE RegisterWasmConfig(reqs[r].manifest[1]))
                @@ tools
    /\ reqs' = [reqs EXCEPT ![r].pc = "done", ![r].ok = TRUE]
    /\ UNCHANGED <<disk, raceFrame>>

ReceiveRegisterScriptStep ==
    \E r \in Requests, name \in Names, sub \in Submissions, i \in Interpreters :
        ReceiveRegisterScript(r, name, sub, i)

ReceiveBuildToolStep ==
    \E r \in Requests, name \in Names, sub \in Submissions : ReceiveBuildTool(r, name, sub)

CheckExistsStep == \E r \in Requests : CheckExists(r)
CompileStep == \E r \in Requests : Compile(r)
MakeToolDirStep == \E r \in Requests : MakeToolDir(r)
WriteManifestStep == \E r \in Requests : WriteManifest(r)
WritePayloadStep == \E r \in Requests : WritePayload(r)
WriteSourceStep == \E r \in Requests : WriteSource(r)
InsertRecordStep == \E r \in Requests : InsertRecord(r)

NextRace ==
    \/ ReceiveRegisterScriptStep
    \/ ReceiveBuildToolStep
    \/ CheckExistsStep
    \/ CompileStep
    \/ MakeToolDirStep
    \/ WriteManifestStep
    \/ WritePayloadStep
    \/ WriteSourceStep
    \/ InsertRecordStep

SpecRace == Init /\ [][NextRace]_vars

Succeeded == {r \in Requests : reqs[r].pc = "done" /\ reqs[r].ok}

\* the record, the manifest file and the payload file are the ones request r sent
StoredFrom(r) ==
    LET name == ReqName(r) IN
    /\ GetTool(name) # None
    /\ tools[name].manifest = StoredManifest(r)
    /\ ReadPath(disk, Join(name, "manifest.json")) = Some(ManifestFile(StoredManifest(r)))
    /\ ManifestPayload(disk[name].files) = Some(BytesFile(reqs[r].code))

\* both requests were for the same name, overlapped or not, and have returned
BothReturned ==
    /\ \A r \in Requests : reqs[r].pc = "done"
    /\ ReqName("r1") = ReqName("r2")

\* C37: when two registration requests (register_script or build_tool) for the
\* same name that is not registered yet, both without overwrite, run concurrently,
\* at most one of them reports success, and the stored manifest and payload both
\* come from that one request.
C37_OneConcurrentRegistrationWins ==
    BothReturned =>
        /\ Cardinality(Succeeded) <= 1
        /\ \A r \in Succeeded : StoredFrom(r)

\* what the code does keep: a request that starts after a registration of the
\* name has returned is turned down
LaterRequestTurnedDown ==
    [][\A r \in Requests :
          (reqs[r].pc = "check" /\ reqs'[r].pc # "check"
             /\ \E q \in Succeeded : ReqName(q) = ReqName(r))
          => (reqs'[r].pc = "done" /\ ~reqs'[r].ok)]_vars

\* a manifest of one request is stored with the payload of the other
MixedStore ==
    /\ BothReturned
    /\ Succeeded = Requests
    /\ \E r, q \in Requests :
          /\ r # q
          /\ reqs[r].kind = reqs[q].kind
          /\ reqs[r].code # reqs[q].code
          /\ ReadPath(disk, Join(ReqName(r), "manifest.json"))
                = Some(ManifestFile(StoredManifest(r)))
          /\ ManifestPayload(disk[ReqName(r)].files) = Some(BytesFile(reqs[q].code))


-----------------------------------------------------------------------------
(* Deleting a tool and the Memory Store.  The memory handler passes the    *)
(* tool name it is given to the store; here the entries are stored under   *)
(* the names of registered tools.                                          *)

\* memory(action: "store", tool_name, key, value) with the name of a registered
\* tool: Memory::set, which is set_with_ttl without a TTL
StoreAsTool(name, key, value) ==
    /\ GetTool(name) # None
    /\ mem' = UpsertNoTtl(mem, name, key, value)
    /\ lastMem' = MemOp("set", name, key, Some(value), None, 1, Replaced(mem, name, key))
    /\ storedAt' = nOps
    /\ UNCHANGED <<now, regVars, conc, script, pipe, eval, db, io, client, reqs>>

StoreAsToolStep ==
    \E name \in Names, key \in MemKeys, value \in MemValues : StoreAsTool(name, key, value)

\* register_script without interpreter and without overwrite
RegisterAnewStep ==
    \E name \in Names, sub \in Submissions :
        nOps < MaxOps /\ RegisterScript(name, sub, None, FALSE)

NextKeep ==
    \/ RegisterAnewStep
    \/ DeleteToolStep
    \/ StoreAsToolStep

SpecKeep == Init /\ [][NextKeep]_vars

RegistryStep == nOps' = nOps + 1

\* what get and list_keys return for every key of a tool is the same after the step
SameReads(name) ==
    /\ \A key \in MemKeys : Get(mem', now', name, key) = Get(mem, now, name, key)
    /\ ListKeys(mem', now', name) = ListKeys(mem, now, name)

\* C40: delete_tool(name) leaves the Memory Store untouched: the entries stored
\* under the name remain, and a tool registered later under the same name reads,
\* through get and list_keys, the values the deleted tool stored.
C40_DeleteLeavesMemoryStore ==
    [][RegistryStep =>
          /\ lastOp'.op = "delete_tool" => (mem' = mem /\ SameReads(lastOp'.name))
          /\ Registered(lastOp') => SameReads(lastOp'.name)]_vars

\* the third operation registers a name anew; the last entry, "X" under "alpha"
\* of that name, was stored after the first operation, so the second operation
\* deleted the tool that stored it
C40_Witness ==
    /\ Registered(lastOp) /\ ~lastOp.existed /\ nOps = 3
    /\ lastMem.op = "set" /\ lastMem.tool = lastOp.name /\ lastMem.key = "alpha"
    /\ storedAt = 1
    /\ Get(mem, now, lastOp.name, "alpha") = Some("X")
    /\ ListKeys(mem, now, lastOp.name) = <<"alpha">>

=============================================================================
